---- MODULE Spec2Model ----
(***************************************************************************)
(* asound: the import & deduplication pipeline of the library store        *)
(* (importFilesChunked, mapWithConcurrency, chunkArray, trackRepo) and the *)
(* playback engine hook (useAudioEngine, safePlay, resolveTrackSrc).       *)
(***************************************************************************)
EXTENDS Integers, Sequences, FiniteSets, TLC

(* ---------------------------------------------------------------- bounds *)

MaxCandidates == 3
MaxChunkSize == 2
MaxConcurrency == 2
MaxOverlapCandidates == 1
MaxTwiceCandidates == 2

\* An import of more files than the failure list holds, of which the first
\* MaxSucceeding may be extracted without failure.
MaxManyCandidates == 52
MaxSucceeding == 2
ManyChunkSize == 20

(* ------------------------------------------------------ program constants *)

DEFAULT_IMPORT_CHUNK_SIZE == 100
DEFAULT_IMPORT_CONCURRENCY == 4
MAX_IMPORT_FAILURES == 50

(* --------------------------------------------------------------- helpers *)

Min(a, b) == IF a < b THEN a ELSE b
Max(a, b) == IF a > b THEN a ELSE b

\* An optional value (undefined | v) is the empty or the one-element sequence.
Undefined == <<>>
Some(v) == <<v>>
OrElse(o, d) == IF o = Undefined THEN d ELSE o[1]

SeqToSet(s) == {s[i] : i \in 1..Len(s)}

\* String.prototype.trim().toLowerCase() on the file names of the model.
TrimLower(s) ==
  CASE s = "A.mp3" -> "a.mp3"
    [] s = " a.mp3" -> "a.mp3"
    [] s = "B.mp3" -> "b.mp3"
    [] s = "Music/A.mp3" -> "music/a.mp3"
    [] s = "music/a.mp3 " -> "music/a.mp3"
    [] OTHER -> s

\* `${identity}::${file.size}::${file.lastModified}`: the two numeric fields
\* are delimited from the right, so the string is the triple.
buildFileSignatureFlat(file, sourcePath) ==
  <<OrElse(sourcePath, file.name), file.size, file.lastModified>>

\* sourcePath || file.name: an empty sourcePath counts as none.
buildFileSignature(file, sourcePath) ==
  LET path == IF sourcePath # Undefined /\ sourcePath[1] # "" THEN sourcePath[1]
              ELSE file.name
  IN <<TrimLower(path), file.size, file.lastModified>>

toCandidate(file, handle, sourcePath) ==
  [file |-> file, handle |-> handle, sourcePath |-> sourcePath,
   signature |-> buildFileSignature(file, sourcePath)]

\* The files a picker can hand to the import: two of them differ only in the
\* letter case of the name, one comes with a persistable file handle.
File(n) == [name |-> n, size |-> 1, lastModified |-> 1]

CandidatePool ==
  << toCandidate(File("a.mp3"), FALSE, Undefined),
     toCandidate(File("A.mp3"), FALSE, Undefined),
     toCandidate(File("b.mp3"), TRUE, Undefined),
     toCandidate(File("c.mp3"), FALSE, Undefined) >>

\* The selections of the pool's files, in the pool's order.
RECURSIVE Selections(_, _)
Selections(pool, i) ==
  IF i > Len(pool) THEN {<<>>}
  ELSE LET rest == Selections(pool, i + 1)
       IN rest \cup {<<pool[i]>> \o s : s \in rest}

CandidateLists(n) == {s \in Selections(CandidatePool, 1) : Len(s) <= n}

(* ------------------------------------------------------------ Track Store *)

\* String.prototype.toLowerCase() and sourcePath.split("/").pop() on the
\* paths of the model.
Lower(s) ==
  CASE s = "A.mp3" -> "a.mp3"
    [] s = "B.mp3" -> "b.mp3"
    [] s = "Music/A.mp3" -> "music/a.mp3"
    [] OTHER -> s

BaseName(s) ==
  CASE s = "Music/A.mp3" -> "A.mp3"
    [] s = "music/a.mp3" -> "a.mp3"
    [] s = "music/a.mp3 " -> "a.mp3 "
    [] OTHER -> s

\* getTrackSignature: the stored signature, or the legacy composite
\* `${sourcePath}|${fileName}|${size}|${lastModified}` of a record written
\* before signatures existed, or null (Undefined).
getTrackSignature(track) ==
  IF track.signature # Undefined THEN track.signature
  ELSE IF track.sourcePath = Undefined THEN Undefined
  ELSE IF track.size = Undefined \/ track.lastModified = Undefined THEN Undefined
  ELSE Some(<<"legacy", Lower(track.sourcePath[1]), Lower(BaseName(track.sourcePath[1])),
              track.size[1], track.lastModified[1]>>)

\* new Set(existingTracks.map(getTrackSignature).filter(Boolean))
SignatureSet(existingTracks) ==
  {getTrackSignature(t)[1] : t \in {u \in existingTracks : getTrackSignature(u) # Undefined}}

\* db.tracks.bulkPut(tracks): put by primary key id.
upsertAllDropping(db, batch) ==
  db

upsertAll(db, batch) ==
  {t \in db : \A b \in SeqToSet(batch) : b.id # t.id} \cup SeqToSet(batch)

\* A record that an earlier session stored for a.mp3 (with its signature), and
\* one stored before signatures existed (sourcePath only).
OldTrack(id, sig, path) ==
  [id |-> id, title |-> "meta", signature |-> sig, sourcePath |-> path,
   size |-> Some(1), lastModified |-> Some(1), source |-> "blob", handleId |-> FALSE,
   blob |-> TRUE]

InitialStores ==
  { {},
    {OldTrack(<<0, 1>>, Some(<<"a.mp3", 1, 1>>), Undefined)},
    {OldTrack(<<0, 2>>, Undefined, Some("b.mp3"))} }

(* ------------------------------------------------------------------ state *)

VARIABLES
  store,            \* Track Store: the records of db.tracks
  tracks,           \* Library State: usePlayerStore().tracks, newest first
  importStatus,     \* Library State: importStatus
  importProgress,   \* Library State: importProgress
  importFailures,   \* Library State: importFailures
  aborted,          \* aborted[r]: opts.signal.aborted of run r
  run,              \* run[r]: the locals of the r-th importFilesChunked call
  player,           \* the playback engine: Library State playback fields, the audio
                    \* element, the refs of useAudioEngine and its calls under way
  signed,           \* two picked files and, once built, their signatures
  database,         \* native app: the SQLite connection and its runInTransaction calls
  engine,           \* native app: the AudioEngine, its Sound and its load() calls
  libraryLoad       \* the locals of a loadLibrary call

importVars == <<store, tracks, importStatus, importProgress, importFailures, aborted, run>>

\* The first and the second call of importFilesChunked.
Runs == {1, 2}

EMPTY_IMPORT_PROGRESS == [total |-> 0, processed |-> 0, succeeded |-> 0, failed |-> 0]

\* The locals of a call that has not started; extracted, wrote, upsertCalls
\* and everyFailure record what the call has done so far (the candidates
\* handed to the mapper, the record ids written to the Track Store, for every
\* chunk begun how its upsertAll calls ended, and every failure of every
\* chunk settled, in order).
IdleRun ==
  [pc |-> "idle", candidates |-> <<>>, chunkSize |-> 0, concurrency |-> 0,
   autoImport |-> FALSE, existing |-> {}, queue |-> <<>>, skipped |-> 0,
   processed |-> 0, succeeded |-> 0, failed |-> 0, failures |-> <<>>,
   chunks |-> <<>>, ci |-> 0, nextIndex |-> 0, inflight |-> {}, results |-> <<>>,
   tracksToSave |-> <<>>, chunkFailures |-> <<>>, attempt |-> 0,
   result |-> Undefined,
   extracted |-> {}, wrote |-> {}, upsertCalls |-> <<>>, everyFailure |-> <<>>]

(* ------------------------------------------------- the import's algorithms *)

\* The deduplication loop: a candidate whose signature is in the set is
\* skipped, any other is queued and its signature added. The queue holds the
\* candidates' positions in the candidate list.
RECURSIVE DedupeFrom(_, _, _, _, _)
DedupeFrom(candidates, i, signatures, queue, skipped) ==
  IF i > Len(candidates) THEN [queue |-> queue, skipped |-> skipped]
  ELSE IF candidates[i].signature \in signatures
       THEN DedupeFrom(candidates, i + 1, signatures, queue, skipped + 1)
       ELSE DedupeFrom(candidates, i + 1, signatures \cup {candidates[i].signature},
                       Append(queue, i), skipped)

RECURSIVE DedupeStoreOnlyFrom(_, _, _, _, _)
DedupeStoreOnlyFrom(candidates, i, signatures, queue, skipped) ==
  IF i > Len(candidates) THEN [queue |-> queue, skipped |-> skipped]
  ELSE IF candidates[i].signature \in signatures
       THEN DedupeStoreOnlyFrom(candidates, i + 1, signatures, queue, skipped + 1)
       ELSE DedupeStoreOnlyFrom(candidates, i + 1, signatures, Append(queue, i), skipped)

DedupeBatchOnly(candidates, existingTracks) ==
  DedupeFrom(candidates, 1, {}, <<>>, 0)

DedupeStoreOnly(candidates, existingTracks) ==
  DedupeStoreOnlyFrom(candidates, 1, SignatureSet(existingTracks), <<>>, 0)

Dedupe(candidates, existingTracks) ==
  DedupeFrom(candidates, 1, SignatureSet(existingTracks), <<>>, 0)

\* chunkArray(items, chunkSize)
chunkArray(items, chunkSize) ==
  IF chunkSize <= 0 THEN <<items>>
  ELSE [k \in 1..((Len(items) + chunkSize - 1) \div chunkSize) |->
          SubSeq(items, (k - 1) * chunkSize + 1, Min(k * chunkSize, Len(items)))]

\* mapWithConcurrency: the number of workers started for a chunk of n items.
WorkerCountUnbounded(concurrency, n) == n

WorkerCount(concurrency, n) == Min(Max(1, concurrency), n)

\* limitFailures(current, incoming)
limitFailuresKeepingLast(current, incoming) ==
  IF Len(incoming) = 0 THEN current
  ELSE SubSeq(current \o incoming,
              Max(1, Len(current \o incoming) - MAX_IMPORT_FAILURES + 1),
              Len(current \o incoming))

limitFailures(current, incoming) ==
  IF Len(incoming) = 0 THEN current
  ELSE SubSeq(current \o incoming, 1, Min(Len(current \o incoming), MAX_IMPORT_FAILURES))

\* The mapper of importFilesChunked, for the candidate at position idx of run
\* r. metaThrows: readAudioMetadata throws (inner catch: fallback metadata);
\* saveOk: handleRepo.save resolves; buildThrows: building the record throws
\* (outer catch: a failure entry). The record's id stands for
\* crypto.randomUUID(): fresh for every mapper call.
TrackOfKeepingHandle(r, idx, candidate, autoImport, metaThrows, saveOk) ==
  LET handleId == candidate.handle /\ saveOk
      asBlob == ~candidate.handle \/ ~handleId
  IN [id |-> <<r, idx>>,
      title |-> IF metaThrows THEN "fallback" ELSE "meta",
      signature |-> Some(candidate.signature),
      sourcePath |-> candidate.sourcePath,
      size |-> Some(candidate.file.size),
      lastModified |-> Some(candidate.file.lastModified),
      source |-> IF asBlob THEN "blob" ELSE "handle",
      handleId |-> IF asBlob THEN FALSE ELSE handleId,
      blob |-> asBlob]

TrackOf(r, idx, candidate, autoImport, metaThrows, saveOk) ==
  LET handleId == candidate.handle /\ saveOk
      asBlob == autoImport \/ ~candidate.handle \/ ~handleId
  IN [id |-> <<r, idx>>,
      title |-> IF metaThrows THEN "fallback" ELSE "meta",
      signature |-> Some(candidate.signature),
      sourcePath |-> candidate.sourcePath,
      size |-> Some(candidate.file.size),
      lastModified |-> Some(candidate.file.lastModified),
      source |-> IF asBlob THEN "blob" ELSE "handle",
      handleId |-> IF asBlob THEN FALSE ELSE handleId,
      blob |-> asBlob]

FailureOf(candidate) ==
  [fileName |-> candidate.file.name, reason |-> "Unknown error"]

\* metaThrew and buildThrew keep what happened inside the call.
MapperFailingOnMeta(r, idx, candidate, autoImport, metaThrows, saveOk, buildThrows) ==
  IF buildThrows \/ metaThrows
  THEN [kind |-> "failure", idx |-> idx, metaThrew |-> metaThrows,
        buildThrew |-> buildThrows, failure |-> FailureOf(candidate)]
  ELSE [kind |-> "track", idx |-> idx, metaThrew |-> metaThrows,
        buildThrew |-> buildThrows,
        track |-> TrackOf(r, idx, candidate, autoImport, metaThrows, saveOk)]

Mapper(r, idx, candidate, autoImport, metaThrows, saveOk, buildThrows) ==
  IF buildThrows
  THEN [kind |-> "failure", idx |-> idx, metaThrew |-> metaThrows,
        buildThrew |-> buildThrows, failure |-> FailureOf(candidate)]
  ELSE [kind |-> "track", idx |-> idx, metaThrew |-> metaThrows,
        buildThrew |-> buildThrows,
        track |-> TrackOf(r, idx, candidate, autoImport, metaThrows, saveOk)]

\* The loop over chunkResults: the records to save (with their file names)
\* and the failures of the chunk, in index order.
RECURSIVE CollectFrom(_, _, _, _, _)
CollectFrom(candidates, results, i, toSave, failures) ==
  IF i > Len(results) THEN [tracksToSave |-> toSave, chunkFailures |-> failures]
  ELSE IF results[i] = Undefined
       THEN CollectFrom(candidates, results, i + 1, toSave, failures)
       ELSE LET item == results[i][1]
            IN IF item.kind = "track"
               THEN CollectFrom(candidates, results, i + 1,
                      Append(toSave, [track |-> item.track,
                                      fileName |-> candidates[item.idx].file.name]),
                      failures)
               ELSE CollectFrom(candidates, results, i + 1, toSave,
                                Append(failures, item.failure))

Collect(candidates, results) == CollectFrom(candidates, results, 1, <<>>, <<>>)

\* The number of trackRepo.upsertAll attempts per chunk (attempt < 2).
WRITE_ATTEMPTS == 2

\* opts?.signal?.aborted at the head of the chunk loop.
SignalIgnored(r) == FALSE

SignalAborted(r) == aborted[r]

(* ------------------------------------------------ importFilesChunked steps *)

Progress(rec, processed) ==
  [total |-> Len(rec.candidates), processed |-> processed,
   succeeded |-> rec.succeeded, failed |-> rec.failed]

\* Lines 478-495: the accounting of a chunk once its write attempts are over.
SettleChunkCountingAll(rec, writeFailed) ==
  [rec EXCEPT !.pc = "yield",
              !.succeeded = @ + Len(rec.tracksToSave),
              !.failed = @ + Len(rec.chunkFailures),
              !.failures = limitFailures(@, rec.chunkFailures),
              !.everyFailure = @ \o rec.chunkFailures,
              !.processed = @ + Len(rec.chunks[rec.ci])]

SettleChunkLosingFailedWrite(rec, writeFailed) ==
  [rec EXCEPT !.pc = "yield",
              !.succeeded = IF ~writeFailed THEN @ + Len(rec.tracksToSave) ELSE @,
              !.failed = @ + Len(rec.chunkFailures),
              !.failures = limitFailures(@, rec.chunkFailures),
              !.everyFailure = @ \o rec.chunkFailures,
              !.processed = @ + Len(rec.chunks[rec.ci])]

SettleChunkCountingSaved(rec, writeFailed) ==
  LET tts == rec.tracksToSave
      cf == IF writeFailed
            THEN rec.chunkFailures \o
                 [i \in 1..Len(tts) |->
                    [fileName |-> tts[i].fileName, reason |-> "Chunk write failed"]]
            ELSE rec.chunkFailures
  IN [rec EXCEPT !.pc = "yield",
                 !.chunkFailures = cf,
                 !.succeeded = IF ~writeFailed /\ Len(tts) > 0 THEN @ + Len(tts) ELSE @,
                 !.failed = @ + Len(cf),
                 !.failures = limitFailures(@, cf),
                 !.everyFailure = @ \o cf,
                 !.processed = @ + Len(rec.tracksToSave)]

SettleChunk(rec, writeFailed) ==
  LET tts == rec.tracksToSave
      cf == IF writeFailed
            THEN rec.chunkFailures \o
                 [i \in 1..Len(tts) |->
                    [fileName |-> tts[i].fileName, reason |-> "Chunk write failed"]]
            ELSE rec.chunkFailures
  IN [rec EXCEPT !.pc = "yield",
                 !.chunkFailures = cf,
                 !.succeeded = IF ~writeFailed /\ Len(tts) > 0 THEN @ + Len(tts) ELSE @,
                 !.failed = @ + Len(cf),
                 !.failures = limitFailures(@, cf),
                 !.everyFailure = @ \o cf,
                 !.processed = @ + Len(rec.chunks[rec.ci])]

\* Lines 478-508: settle the chunk, prepend its records to the Library State
\* when the write succeeded, publish the progress, and yield to the UI.
ChunkTail(r, rec, writeFailed) ==
  LET next == SettleChunk(rec, writeFailed)
      saved == [i \in 1..Len(rec.tracksToSave) |-> rec.tracksToSave[i].track]
  IN /\ run' = [run EXCEPT ![r] = next]
     /\ tracks' = IF next.succeeded > rec.succeeded THEN saved \o tracks ELSE tracks
     /\ importProgress' = Progress(next, next.processed)
     /\ importFailures' = next.failures
     /\ UNCHANGED importStatus

\* A call that has returned or thrown: its locals are gone, what it was given,
\* what it returned and the record of what it did remain.
Returned(rec, pc, result) ==
  [IdleRun EXCEPT !.pc = pc, !.result = result,
                  !.candidates = rec.candidates, !.existing = rec.existing,
                  !.chunks = rec.chunks, !.ci = rec.ci,
                  !.skipped = rec.skipped, !.processed = rec.processed,
                  !.extracted = rec.extracted, !.wrote = rec.wrote,
                  !.upsertCalls = rec.upsertCalls,
                  !.everyFailure = rec.everyFailure]

\* Lines 363-383 (canceled) and 511-539: the call returns its result.
Finish(r, rec, canceled) ==
  LET result == [total |-> Len(rec.candidates), imported |-> rec.succeeded,
                 skipped |-> rec.skipped, failed |-> rec.failed, canceled |-> canceled]
  IN /\ run' = [run EXCEPT ![r] = Returned(rec, "done", Some(result))]
     /\ importStatus' = "done"
     /\ importProgress' =
          Progress(rec, IF canceled THEN rec.processed ELSE Len(rec.candidates))
     /\ importFailures' = rec.failures
     /\ UNCHANGED tracks

\* Line 385 and mapWithConcurrency lines 25-38: the workers are created one
\* after the other, each claims the next index and calls the mapper, which
\* runs up to its first await.
StartChunk(r, rec, publish) ==
  LET chunk == rec.chunks[rec.ci]
      k == WorkerCount(rec.concurrency, Len(chunk))
      started == [rec EXCEPT !.pc = "mapping",
                             !.results = [i \in 1..Len(chunk) |-> Undefined],
                             !.inflight = 1..k,
                             !.nextIndex = k + 1,
                             !.tracksToSave = <<>>,
                             !.chunkFailures = <<>>,
                             !.attempt = 0,
                             !.upsertCalls = Append(@, <<>>),
                             !.extracted = @ \cup {chunk[i] : i \in 1..k}]
  IN IF Len(chunk) = 0
     THEN ChunkTail(r, started, FALSE)
     ELSE /\ run' = [run EXCEPT ![r] = started]
          /\ importProgress' = IF publish THEN Progress(rec, rec.processed)
                               ELSE importProgress
          /\ UNCHANGED <<tracks, importStatus, importFailures>>

\* The head of `for (const chunk of chunks)`, rec.ci being the chunk to do.
LoopHead(r, rec, publish) ==
  IF rec.ci > Len(rec.chunks) THEN Finish(r, rec, FALSE)
  ELSE IF SignalAborted(r) THEN Finish(r, rec, TRUE)
  ELSE StartChunk(r, rec, publish)

\* Lines 298-330: the call up to `await trackRepo.getAll()`.
StartImport(r, candidates, opts) ==
  /\ run[r].pc = "idle"
  /\ IF Len(candidates) = 0
     THEN /\ run' = [run EXCEPT ![r] =
                       Returned(@, "done", Some([total |-> 0, imported |-> 0, skipped |-> 0,
                                                 failed |-> 0, canceled |-> FALSE]))]
          /\ importStatus' = "done"
          /\ importProgress' = EMPTY_IMPORT_PROGRESS
     ELSE /\ run' = [run EXCEPT ![r] =
                       [@ EXCEPT !.pc = "getAll",
                                 !.candidates = candidates,
                                 !.chunkSize = OrElse(opts.chunkSize, DEFAULT_IMPORT_CHUNK_SIZE),
                                 !.concurrency = OrElse(opts.concurrency, DEFAULT_IMPORT_CONCURRENCY),
                                 !.autoImport = opts.autoImport]]
          /\ importStatus' = "running"
          /\ importProgress' = [EMPTY_IMPORT_PROGRESS EXCEPT !.total = Len(candidates)]
  /\ importFailures' = <<>>
  /\ UNCHANGED <<store, tracks, aborted>>
  /\ UNCHANGED <<player, signed, database, engine, libraryLoad>>

\* Lines 330-360 and the first pass through the loop head: getAll resolves.
GetAllResolves(r) ==
  /\ run[r].pc = "getAll"
  /\ LET d == Dedupe(run[r].candidates, store)
         rec == [run[r] EXCEPT !.existing = SignatureSet(store),
                               !.queue = d.queue,
                               !.skipped = d.skipped,
                               !.processed = d.skipped,
                               !.chunks = chunkArray(d.queue, run[r].chunkSize),
                               !.ci = 1]
     IN LoopHead(r, rec, TRUE)
  /\ UNCHANGED <<store, aborted>>
  /\ UNCHANGED <<player, signed, database, engine, libraryLoad>>

\* Lines 540-546: getAll rejects; the catch publishes "error" and rethrows.
GetAllRejects(r) ==
  /\ run[r].pc = "getAll"
  /\ run' = [run EXCEPT ![r] = Returned(@, "error", Undefined)]
  /\ importStatus' = "error"
  /\ UNCHANGED <<store, tracks, importProgress, importFailures, aborted>>
  /\ UNCHANGED <<player, signed, database, engine, libraryLoad>>

StoreAtLastClaimed(results, index, nextIndex, item) ==
  [results EXCEPT ![nextIndex - 1] = Some(item)]

\* mapWithConcurrency line 33: results[index] = await mapper(items[index], index),
\* index being the worker's own const of line 31.
StoreResult(results, index, nextIndex, item) ==
  [results EXCEPT ![index] = Some(item)]

\* mapWithConcurrency lines 30-34 and, when the last worker leaves its loop,
\* lines 449-468: one mapper call settles, its worker stores the result and
\* claims the next index if there is one.
MapperSettles(r, i, metaThrows, saveOk, buildThrows) ==
  /\ run[r].pc = "mapping"
  /\ i \in run[r].inflight
  /\ LET rec == run[r]
         chunk == rec.chunks[rec.ci]
         item == Mapper(r, chunk[i], rec.candidates[chunk[i]], rec.autoImport,
                        metaThrows, saveOk, buildThrows)
         more == rec.nextIndex <= Len(chunk)
         mapped == [rec EXCEPT !.results = StoreResult(@, i, rec.nextIndex, item),
                               !.inflight = (@ \ {i}) \cup
                                            (IF more THEN {rec.nextIndex} ELSE {}),
                               !.nextIndex = IF more THEN @ + 1 ELSE @,
                               !.extracted = IF more THEN @ \cup {chunk[rec.nextIndex]}
                                             ELSE @]
         col == Collect(rec.candidates, mapped.results)
         collected == [mapped EXCEPT !.tracksToSave = col.tracksToSave,
                                     !.chunkFailures = col.chunkFailures]
     IN IF mapped.inflight # {}
        THEN /\ run' = [run EXCEPT ![r] = mapped]
             /\ UNCHANGED <<tracks, importStatus, importProgress, importFailures>>
        ELSE IF Len(col.tracksToSave) > 0
        THEN /\ run' = [run EXCEPT ![r] = [collected EXCEPT !.pc = "write"]]
             /\ UNCHANGED <<tracks, importStatus, importProgress, importFailures>>
        ELSE ChunkTail(r, collected, FALSE)
  /\ UNCHANGED <<store, aborted>>
  /\ UNCHANGED <<player, signed, database, engine, libraryLoad>>

\* Lines 468-470: trackRepo.upsertAll resolves.
WriteResolves(r) ==
  /\ run[r].pc = "write"
  /\ LET rec == run[r]
         batch == [i \in 1..Len(rec.tracksToSave) |-> rec.tracksToSave[i].track]
     IN /\ store' = upsertAll(store, batch)
        /\ ChunkTail(r, [rec EXCEPT !.wrote = @ \cup {batch[i].id : i \in 1..Len(batch)},
                                     !.upsertCalls[rec.ci] = Append(@, "resolved")],
                     FALSE)
  /\ UNCHANGED aborted
  /\ UNCHANGED <<player, signed, database, engine, libraryLoad>>

\* Lines 471-474: trackRepo.upsertAll rejects; the first time the loop yields
\* to the UI before its second attempt, the second time the loop is over.
WriteRejects(r) ==
  /\ run[r].pc = "write"
  /\ LET rec == [run[r] EXCEPT !.upsertCalls[run[r].ci] = Append(@, "rejected")]
     IN IF rec.attempt = 0
        THEN /\ run' = [run EXCEPT ![r] = [rec EXCEPT !.pc = "retryYield"]]
             /\ UNCHANGED <<tracks, importStatus, importProgress, importFailures>>
        ELSE ChunkTail(r, rec, TRUE)
  /\ UNCHANGED <<store, aborted>>
  /\ UNCHANGED <<player, signed, database, engine, libraryLoad>>

RetryWriteForgetting(r) ==
  /\ run[r].pc = "retryYield"
  /\ run' = [run EXCEPT ![r] = [@ EXCEPT !.pc = "write"]]
  /\ UNCHANGED <<tracks, importStatus, importProgress, importFailures>>
  /\ UNCHANGED <<store, aborted>>
  /\ UNCHANGED <<player, signed, database, engine, libraryLoad>>

\* Lines 466-468: yieldToUI resolves, attempt becomes 1 and upsertAll is
\* called again, while attempt < WRITE_ATTEMPTS.
RetryWrite(r) ==
  /\ run[r].pc = "retryYield"
  /\ IF run[r].attempt + 1 < WRITE_ATTEMPTS
     THEN /\ run' = [run EXCEPT ![r] = [@ EXCEPT !.pc = "write", !.attempt = @ + 1]]
          /\ UNCHANGED <<tracks, importStatus, importProgress, importFailures>>
     ELSE ChunkTail(r, run[r], TRUE)
  /\ UNCHANGED <<store, aborted>>
  /\ UNCHANGED <<player, signed, database, engine, libraryLoad>>

NextChunkBeforeWrite(r) ==
  /\ run[r].pc \in {"yield", "write"}
  /\ LoopHead(r, [run[r] EXCEPT !.ci = @ + 1], FALSE)
  /\ UNCHANGED <<store, aborted>>
  /\ UNCHANGED <<player, signed, database, engine, libraryLoad>>

\* Line 508 and the next pass through the loop head: yieldToUI resolves.
NextChunk(r) ==
  /\ run[r].pc = "yield"
  /\ LoopHead(r, [run[r] EXCEPT !.ci = @ + 1], FALSE)
  /\ UNCHANGED <<store, aborted>>
  /\ UNCHANGED <<player, signed, database, engine, libraryLoad>>

\* The caller's AbortController.abort().
Abort(r) ==
  /\ ~aborted[r]
  /\ run[r].pc \notin {"done", "error"}
  /\ aborted' = [aborted EXCEPT ![r] = TRUE]
  /\ UNCHANGED <<store, tracks, importStatus, importProgress, importFailures, run>>
  /\ UNCHANGED <<player, signed, database, engine, libraryLoad>>

(* ------------------------------------------------------------ loadLibrary *)

\* A loadLibrary call that has not started.
IdleLoading == [pc |-> "idle", sorted |-> <<>>, incomplete |-> {}, repaired |-> {}]

\* a is added after b. addedAt (Date.now() in the mapper) is not a field of
\* the model's records; the id stands for it: records stored by an earlier
\* session are the oldest, then come the records of a call in the order of
\* their candidates.
AddedAfter(a, b) ==
  \/ a.id[1] > b.id[1]
  \/ a.id[1] = b.id[1] /\ a.id[2] > b.id[2]

\* tracks.sort((a, b) => b.addedAt - a.addedAt), line 201
SortByAddedAt(db) ==
  CHOOSE s \in [1..Cardinality(db) -> db] :
    \A i, j \in 1..Cardinality(db) : i < j => AddedAfter(s[i], s[j])

\* Lines 204-210: the records without a duration (the mapper's fallback
\* metadata has duration 0) that have a blob or a handle.
Incomplete(sorted) ==
  {t \in SeqToSet(sorted) : t.title = "fallback" /\ (t.blob \/ t.handleId)}

\* Lines 241-268: the record with the metadata read from its file.
Repair(track) == [track EXCEPT !.title = "repaired"]

RepairedTracksOfSnapshot(current, sorted, repaired) ==
  [i \in 1..Len(sorted) |->
     IF \E t \in repaired : t.id = sorted[i].id
     THEN CHOOSE t \in repaired : t.id = sorted[i].id
     ELSE sorted[i]]

\* Line 276: get().tracks.map((track) => repairedMap.get(track.id) || track)
RepairedTracks(current, sorted, repaired) ==
  [i \in 1..Len(current) |->
     IF \E t \in repaired : t.id = current[i].id
     THEN CHOOSE t \in repaired : t.id = current[i].id
     ELSE current[i]]

\* Line 199: loadLibrary is called, up to `await trackRepo.getAll()`.
LoadLibrary ==
  /\ libraryLoad.pc = "idle"
  /\ libraryLoad' = [libraryLoad EXCEPT !.pc = "getAll"]
  /\ UNCHANGED <<importVars, player, signed, database, engine>>

\* Lines 200-212: getAll resolves with the records of the Track Store, the
\* sorted list replaces the Library State's, and the call returns when no
\* record is incomplete.
LibraryGetAllResolves ==
  /\ libraryLoad.pc = "getAll"
  /\ LET sorted == SortByAddedAt(store)
     IN /\ tracks' = sorted
        /\ libraryLoad' = [libraryLoad EXCEPT !.sorted = sorted,
                                      !.incomplete = Incomplete(sorted),
                                      !.pc = IF Incomplete(sorted) = {} THEN "done"
                                             ELSE "repair"]
  /\ UNCHANGED <<store, importStatus, importProgress, importFailures, aborted, run>>
  /\ UNCHANGED <<player, signed, database, engine>>

\* Line 200: getAll rejects and loadLibrary with it.
LibraryGetAllRejects ==
  /\ libraryLoad.pc = "getAll"
  /\ libraryLoad' = [libraryLoad EXCEPT !.pc = "threw"]
  /\ UNCHANGED <<importVars, player, signed, database, engine>>

\* Lines 214-271: the repair loop, whose awaits read the files. changed: the
\* incomplete records whose file was read and gave metadata the record
\* lacked; the call returns when there is none, else calls upsertAll.
RepairLoopEnds(changed) ==
  /\ libraryLoad.pc = "repair"
  /\ changed \subseteq libraryLoad.incomplete
  /\ libraryLoad' = [libraryLoad EXCEPT !.repaired = {Repair(t) : t \in changed},
                                !.pc = IF changed = {} THEN "done" ELSE "write"]
  /\ UNCHANGED <<importVars, player, signed, database, engine>>

\* Lines 273-277: upsertAll(repaired) resolves and the repaired records
\* replace their old versions in the Library State's current list.
RepairWriteResolves ==
  /\ libraryLoad.pc = "write"
  /\ store' = upsertAll(store, SortByAddedAt(libraryLoad.repaired))
  /\ tracks' = RepairedTracks(tracks, libraryLoad.sorted, libraryLoad.repaired)
  /\ libraryLoad' = [libraryLoad EXCEPT !.pc = "done"]
  /\ UNCHANGED <<importStatus, importProgress, importFailures, aborted, run>>
  /\ UNCHANGED <<player, signed, database, engine>>

\* Line 273: upsertAll rejects and loadLibrary with it.
RepairWriteRejects ==
  /\ libraryLoad.pc = "write"
  /\ libraryLoad' = [libraryLoad EXCEPT !.pc = "threw"]
  /\ UNCHANGED <<importVars, player, signed, database, engine>>

(* -------------------------------------------------------- playback engine *)

\* The load() calls and the play()/pause() calls one behaviour may start, the
\* tracks of the library, and the length of a track.
MaxLoads == 2
MaxCalls == 3
MaxTracks == 2
MaxTime == 2

\* The sizes and modification times of the files buildFileSignature is given.
MaxSize == 2
MaxModified == 2

\* A play() or pause() call that has returned: its locals are gone.
ReturnedCall ==
  [op |-> "none", caller |-> "none", pc |-> "done", started |-> FALSE, paused |-> FALSE,
   sentinel |-> Undefined, ready |-> TRUE, event |-> Undefined]

\* A track whose content is read through a stored file handle.
HandleTrack(id) ==
  [OldTrack(id, Undefined, Undefined) EXCEPT !.source = "handle", !.handleId = TRUE,
                                            !.blob = FALSE]

\* The library the engine plays from: a handle-backed and a blob-backed track.
PlayerTracks == <<HandleTrack(<<0, 1>>), OldTrack(<<0, 2>>, Undefined, Undefined)>>

\* The engine at mount: no current track, a paused audio element without a
\* source, no object URL, no wake lock; loads and calls list the load() and the
\* play()/pause() calls made so far, revoked lists the URLs handed to
\* URL.revokeObjectURL, loadDeps and playDeps are the dependencies the load
\* effect and the play/pause effect last ran with. wakeLock is the sentinel
\* the module variable of wakeLock.ts holds, sentinels the sentinels that
\* navigator.wakeLock.request granted and nobody released; a sentinel is named
\* by the call that requested it. orderedTrackIds is the memo of lines 57-60
\* and queueDeps the track ids and the shuffle flag it was computed from.
IdlePlayer ==
  [currentTrackId |-> Undefined, isPlaying |-> FALSE,
   lastKnownShouldBePlaying |-> FALSE, playbackNotice |-> Undefined,
   src |-> Undefined, paused |-> TRUE, objectUrlRef |-> Undefined, revoked |-> <<>>,
   loads |-> <<>>, calls |-> <<>>, wakeLock |-> Undefined, sentinels |-> {},
   loadDeps |-> <<Undefined, FALSE, "off", <<<<>>, FALSE>>>>,
   playDeps |-> <<Undefined, FALSE>>,
   repeat |-> "off", shuffle |-> FALSE, shuffleOrderRef |-> <<>>,
   orderedTrackIds |-> <<>>, queueDeps |-> <<<<>>, FALSE>>,
   currentTime |-> 0, duration |-> 0]

\* tracks.map((track) => track.id)
TrackIds(list) == [i \in 1..Len(list) |-> list[i].id]

\* The engine mounted over the library list.
MountedPlayer(list) ==
  [IdlePlayer EXCEPT !.orderedTrackIds = TrackIds(list),
                     !.queueDeps = <<TrackIds(list), FALSE>>,
                     !.loadDeps = <<Undefined, FALSE, "off", <<TrackIds(list), FALSE>>>>]

\* tracks.find((track) => track.id === currentTrackId) || null
currentTrack(list, id) ==
  LET hits == {i \in 1..Len(list) : Some(list[i].id) = id}
  IN IF hits = {} THEN Undefined
     ELSE Some(list[CHOOSE i \in hits : \A j \in hits : i <= j])

setCurrent(p, id) == [p EXCEPT !.currentTrackId = id]
setIsPlaying(p, value) == [p EXCEPT !.isPlaying = value]
setLastKnownShouldBePlaying(p, value) == [p EXCEPT !.lastKnownShouldBePlaying = value]
setPlaybackNotice(p, notice) == [p EXCEPT !.playbackNotice = notice]

\* The store's reconcilePlaybackState: isPlaying follows what the output does.
reconcilePlaybackFromStore(p, snapshot) ==
  setIsPlaying(p, snapshot.hasSrc /\ ~snapshot.paused /\ snapshot.ready)

\* ready: readyState is not 0 and the element has no error.
syncFromAudioElement(p, ready) ==
  LET snapshot == [paused |-> p.paused, hasSrc |-> p.src # Undefined, ready |-> ready]
      reconciled == reconcilePlaybackFromStore(p, snapshot)
  IN IF ~snapshot.hasSrc \/ ~ready THEN setIsPlaying(reconciled, FALSE) ELSE reconciled

\* The element goes from paused to playing or stays as it is: when it starts
\* to play it fires play and onPlayEvent runs, lines 235-240, before the
\* promise of element.play() is settled.
onPlayEvent(p, paused, ready) ==
  IF p.paused /\ ~paused
  THEN syncFromAudioElement(
         setPlaybackNotice(
           setLastKnownShouldBePlaying([p EXCEPT !.paused = FALSE], TRUE), Undefined),
         ready)
  ELSE [p EXCEPT !.paused = paused]

revokeObjectURL(p, url) == [p EXCEPT !.revoked = Append(@, url)]

\* Lines 406-409, and line 387: revoke the URL the ref holds, if it holds one.
RevokeRef(p) ==
  IF p.objectUrlRef # Undefined THEN revokeObjectURL(p, p.objectUrlRef[1]) ELSE p

\* resolveTrackSrc: url is the object URL createObjectURL would return, stored
\* says whether handleRepo.get and getFile find the file.
resolveTrackSrc(track, stored, url) ==
  IF track.source \in {"blob", "file"} /\ track.blob THEN Some(url)
  ELSE IF track.source = "handle" /\ track.handleId
  THEN IF stored THEN Some(url) ELSE Undefined
  ELSE Undefined

\* resolveTrackSrc waits for the handle store only on its handle branch.
AwaitsHandle(track) == track.source = "handle" /\ track.handleId

\* play() up to its await of safePlay, lines 120-123.
playCall(p, caller) ==
  LET q == setPlaybackNotice(setLastKnownShouldBePlaying(p, TRUE), Undefined)
  IN [q EXCEPT !.calls = Append(@, [op |-> "play", caller |-> caller, pc |-> "safePlay",
                                     started |-> FALSE, paused |-> FALSE,
                                     sentinel |-> Undefined, ready |-> TRUE,
                                     event |-> Undefined])]

\* pause() up to its await of releaseWakeLock, lines 143-150; sentinel is the
\* one wakeLock?.release() is called on.
pauseCall(p, caller, ready) ==
  LET a == setLastKnownShouldBePlaying(p, FALSE)
      b == syncFromAudioElement([a EXCEPT !.paused = TRUE], ready)
      c == setPlaybackNotice(setIsPlaying(b, FALSE), Undefined)
  IN [c EXCEPT !.calls = Append(@, [op |-> "pause", caller |-> caller, pc |-> "release",
                                     started |-> FALSE, paused |-> TRUE,
                                     sentinel |-> p.wakeLock, ready |-> TRUE,
                                     event |-> Undefined])]

PlayRefusedOnlyOnReject(started, paused) == ~started

\* Line 126: the platform refused to start audio.
PlayRefused(started, paused) == ~started \/ paused

CanCall(p) == Len(p.calls) < MaxCalls

\* An effect whose dependencies changed runs after the render, the load effect
\* before the play/pause effect; the continuation of a load that awaits
\* nothing but resolved promises runs before the next task.
QueueRenderPending(p) == p.queueDeps # <<TrackIds(tracks), p.shuffle>>

\* The dependencies of the load effect, lines 411-423, that change: the
\* current track and its id, and registerMediaSessionHandlers, which is made
\* anew when playNext is, that is with currentTrackId, orderedTrackIds or repeat.
LoadDeps(p) ==
  <<p.currentTrackId, currentTrack(tracks, p.currentTrackId) # Undefined, p.repeat,
    p.queueDeps>>

LoadEffectPending(p) == LoadDeps(p) # p.loadDeps
PlaybackEffectPending(p) == <<p.currentTrackId, p.isPlaying>> # p.playDeps
MicrotaskPending(p) ==
  \E l \in 1..Len(p.loads) : p.loads[l].pc = "resolving" /\ ~p.loads[l].awaits
TaskBoundary(p) ==
  /\ ~QueueRenderPending(p)
  /\ ~LoadEffectPending(p) /\ ~PlaybackEffectPending(p) /\ ~MicrotaskPending(p)

\* A row of the track list is tapped: setCurrent(track.id); setIsPlaying(true).
SelectTrack(id) ==
  /\ TaskBoundary(player)
  /\ currentTrack(tracks, Some(id)) # Undefined
  /\ Some(id) # player.currentTrackId => Len(player.loads) < MaxLoads
  /\ player' = setIsPlaying(setCurrent(player, Some(id)), TRUE)
  /\ UNCHANGED <<importVars, signed, database, engine, libraryLoad>>

\* The load effect, lines 373-410: the cleanup of its last run revokes the
\* URL the ref holds, and load() is called for the new current track.
LoadEffect ==
  /\ LoadEffectPending(player)
  /\ ~QueueRenderPending(player)
  /\ LET p == player
         cleaned == IF p.loadDeps[2]
                    THEN [RevokeRef(p) EXCEPT !.objectUrlRef = Undefined]
                    ELSE p
         track == currentTrack(tracks, p.currentTrackId)
         loading == IF track = Undefined THEN cleaned
                    ELSE [cleaned EXCEPT !.loads =
                            Append(@, [track |-> track[1].id, pc |-> "resolving",
                                       awaits |-> AwaitsHandle(track[1]),
                                       url |-> Undefined,
                                       raced |-> /\ Len(p.loads) > 0
                                                 /\ p.loads[Len(p.loads)].pc = "resolving"])]
     IN player' = [loading EXCEPT !.loadDeps = LoadDeps(p)]
  /\ UNCHANGED <<importVars, signed, database, engine, libraryLoad>>

\* Lines 377-400: resolveTrackSrc of load l settles and load() goes on, up to
\* the await inside the play() it may call. Object URL l is the one
\* createObjectURL makes for load l.
ResolveTrackSrc(l, stored, ready) ==
  /\ l \in 1..Len(player.loads)
  /\ player.loads[l].pc = "resolving"
  /\ ~LoadEffectPending(player) /\ ~PlaybackEffectPending(player)
  /\ player.loads[l].awaits => ~MicrotaskPending(player)
  /\ LET p == player
         track == currentTrack(tracks, Some(p.loads[l].track))[1]
         src == resolveTrackSrc(track, stored, l)
         shouldPlay == p.isPlaying \/ p.lastKnownShouldBePlaying
         failed == syncFromAudioElement(
                     setPlaybackNotice(
                       setLastKnownShouldBePlaying(setIsPlaying(p, FALSE), FALSE),
                       Some("Unable to load this track. Try selecting it again.")),
                     ready)
         assigned == [RevokeRef(p) EXCEPT !.objectUrlRef = src, !.src = src,
                                          !.paused = IF p.src = Undefined THEN @ ELSE TRUE,
                                          !.currentTime = 0, !.duration = 0]
         synced == syncFromAudioElement(assigned, FALSE)
         loaded == IF shouldPlay THEN playCall(synced, "load") ELSE synced
     IN /\ (src # Undefined /\ shouldPlay) => CanCall(p)
        /\ player' = [(IF src = Undefined THEN failed ELSE loaded)
                        EXCEPT !.loads[l] = [@ EXCEPT !.pc = "done", !.url = src]]
  /\ UNCHANGED <<importVars, signed, database, engine, libraryLoad>>

\* resolveTrackSrc of load l rejects: handleRepo.get or getFile, part_015
\* lines 48-50, throws (the database fails, the file is gone or may not be
\* read). load() has no try, so its promise, which the effect drops with
\* void, rejects and none of its later lines run.
ResolveTrackSrcThrows(l) ==
  /\ l \in 1..Len(player.loads)
  /\ player.loads[l].pc = "resolving"
  /\ player.loads[l].awaits
  /\ ~LoadEffectPending(player) /\ ~PlaybackEffectPending(player)
  /\ ~MicrotaskPending(player)
  /\ player' = [player EXCEPT !.loads[l] = [@ EXCEPT !.pc = "threw"]]
  /\ UNCHANGED <<importVars, signed, database, engine, libraryLoad>>

\* The play/pause effect, lines 425-443.
PlaybackEffect(ready) ==
  /\ PlaybackEffectPending(player)
  /\ ~LoadEffectPending(player)
  /\ LET p == player
         calls == p.currentTrackId # Undefined /\ p.isPlaying = p.paused
         q == IF p.currentTrackId = Undefined THEN p
              ELSE IF p.isPlaying
              THEN IF ~p.paused THEN syncFromAudioElement(p, ready)
                   ELSE playCall(p, "effect")
              ELSE IF p.paused THEN syncFromAudioElement(p, ready)
                   ELSE pauseCall(p, "effect", ready)
     IN /\ calls => CanCall(p)
        /\ player' = [q EXCEPT !.playDeps = <<p.currentTrackId, p.isPlaying>>]
  /\ UNCHANGED <<importVars, signed, database, engine, libraryLoad>>

\* The Play button, shown while isPlaying is false: play().
PressPlay ==
  /\ TaskBoundary(player)
  /\ player.currentTrackId # Undefined
  /\ ~player.isPlaying
  /\ CanCall(player)
  /\ player' = playCall(player, "user")
  /\ UNCHANGED <<importVars, signed, database, engine, libraryLoad>>

\* The Pause button, shown while isPlaying is true: pause().
PressPause(ready) ==
  /\ TaskBoundary(player)
  /\ player.currentTrackId # Undefined
  /\ player.isPlaying
  /\ CanCall(player)
  /\ player' = pauseCall(player, "user", ready)
  /\ UNCHANGED <<importVars, signed, database, engine, libraryLoad>>

\* Lines 123-136: safePlay of play() call k returns started, the element is
\* then paused or not, and play() goes on to its wake lock await.
PlaySettle(k, started, paused, ready) ==
  /\ k \in 1..Len(player.calls)
  /\ player.calls[k].op = "play"
  /\ player.calls[k].pc = "safePlay"
  /\ TaskBoundary(player)
  /\ LET p == player
         synced == syncFromAudioElement(onPlayEvent(p, paused, ready), ready)
         refused == PlayRefused(started, paused)
         blocked == setPlaybackNotice(
                      setIsPlaying(setLastKnownShouldBePlaying(synced, FALSE), FALSE),
                      Some("Playback paused by iOS. Tap Play to continue."))
     IN player' = [(IF refused THEN blocked ELSE synced)
                     EXCEPT !.calls[k] = [@ EXCEPT !.pc = IF refused THEN "release"
                                                          ELSE "request",
                                                   !.started = started,
                                                   !.paused = paused,
                                                   !.sentinel = IF refused THEN p.wakeLock
                                                                ELSE Undefined]]
  /\ UNCHANGED <<importVars, signed, database, engine, libraryLoad>>

\* releaseWakeLock returns to play() or pause(): the sentinel it was called on
\* is released, and the module variable is set to null whatever it holds now.
ReleaseWakeLockReturns(k) ==
  /\ k \in 1..Len(player.calls)
  /\ player.calls[k].pc = "release"
  /\ TaskBoundary(player)
  /\ player' = [player EXCEPT !.wakeLock = Undefined,
                               !.sentinels = @ \ SeqToSet(player.calls[k].sentinel),
                               !.calls[k] = ReturnedCall]
  /\ UNCHANGED <<importVars, signed, database, engine, libraryLoad>>

\* requestWakeLock returns to play() or to reconcilePlaybackState: a granted
\* request stores its sentinel in the module variable, over the one it held.
\* reconcilePlaybackState then runs its lines 213-215 on its first snapshot.
RequestWakeLockReturns(k, granted) ==
  /\ k \in 1..Len(player.calls)
  /\ player.calls[k].pc = "request"
  /\ TaskBoundary(player)
  /\ player' = [player EXCEPT !.wakeLock = IF granted THEN Some(k) ELSE @,
                               !.sentinels = IF granted THEN @ \cup {k} ELSE @,
                               !.isPlaying = @ /\ player.calls[k].ready,
                               !.calls[k] = ReturnedCall]
  /\ UNCHANGED <<importVars, signed, database, engine, libraryLoad>>

\* The platform pauses the audio (an interruption, a lock screen control): the
\* element fires pause and onPauseEvent runs, lines 241-244.
PlatformPause(ready) ==
  /\ TaskBoundary(player)
  /\ player.src # Undefined
  /\ ~player.paused
  /\ player' = syncFromAudioElement([player EXCEPT !.paused = TRUE], ready)
  /\ UNCHANGED <<importVars, signed, database, engine, libraryLoad>>

\* The element fires error and onError runs, lines 245-250; the snapshot has
\* the error. paused says whether the element is paused at that time.
AudioError(paused) ==
  /\ TaskBoundary(player)
  /\ player.src # Undefined
  /\ player' = syncFromAudioElement(
                  setPlaybackNotice(
                    setIsPlaying(setLastKnownShouldBePlaying(
                                   [player EXCEPT !.paused = paused], FALSE), FALSE),
                    Some("Playback interrupted. Tap Play to try again.")),
                  FALSE)
  /\ UNCHANGED <<importVars, signed, database, engine, libraryLoad>>

shouldTryResumeHidden(p, hidden, error, ended) ==
  p.lastKnownShouldBePlaying /\ p.src # Undefined /\ p.paused /\ ~error /\ ~ended

\* Line 188: the conditions of an automatic resume.
shouldTryResume(p, hidden, error, ended) ==
  ~hidden /\ p.lastKnownShouldBePlaying /\ p.src # Undefined /\ p.paused /\ ~error /\ ~ended

\* A lifecycle event (visibilitychange, pagehide, pageshow, focus, blur) calls
\* reconcilePlaybackState, lines 179-197 and, without a resume, 213-215.
\* hidden is document.hidden, error whether the element has an error, ready
\* whether it has none and readyState is not 0, ended is audio.ended; the
\* resume keeps them in event.
Lifecycle(hidden, error, ready, ended) ==
  /\ TaskBoundary(player)
  /\ error => ~ready
  /\ LET p == player
         synced == syncFromAudioElement(p, ready)
         resume == shouldTryResume(p, hidden, error, ended)
     IN /\ resume => CanCall(p)
        /\ player' = IF resume
                      THEN [synced EXCEPT !.calls =
                              Append(@, [op |-> "resume", caller |-> "lifecycle",
                                         pc |-> "safePlay", started |-> FALSE,
                                         paused |-> FALSE, sentinel |-> Undefined,
                                         ready |-> ready,
                                         event |-> Some([hidden |-> hidden,
                                                         error |-> error,
                                                         ended |-> ended])])]
                      ELSE synced
  /\ UNCHANGED <<importVars, signed, database, engine, libraryLoad>>

\* Lines 197-215: safePlay of the resume k returns; a resume that started goes
\* on to requestWakeLock, a refused one clears the intent and returns.
ResumeSettle(k, started, paused, ready) ==
  /\ k \in 1..Len(player.calls)
  /\ player.calls[k].op = "resume"
  /\ player.calls[k].pc = "safePlay"
  /\ TaskBoundary(player)
  /\ LET p == player
         afterResume == syncFromAudioElement(onPlayEvent(p, paused, ready), ready)
         resumed == started /\ ~paused
         refused == setPlaybackNotice(
                      setIsPlaying(setLastKnownShouldBePlaying(afterResume, FALSE), FALSE),
                      Some("Playback was paused by iOS. Tap Play to continue."))
     IN player' = IF resumed
                  THEN [setPlaybackNotice(afterResume, Undefined)
                          EXCEPT !.calls[k] = [@ EXCEPT !.pc = "request",
                                                        !.started = started,
                                                        !.paused = paused]]
                  ELSE [refused EXCEPT !.calls[k] = ReturnedCall]
  /\ UNCHANGED <<importVars, signed, database, engine, libraryLoad>>

(* ---------------------------------------------------------------- the queue *)

\* const clamp, line 8.
clamp(value, min, max) == Min(max, Max(min, value))

\* Array.prototype.indexOf, counted from 1: 0 when x is not in the array.
IndexOf(seq, x) ==
  LET hits == {i \in 1..Len(seq) : seq[i] = x}
  IN IF hits = {} THEN 0 ELSE CHOOSE i \in hits : \A j \in hits : i <= j

Reverse(seq) == [i \in 1..Len(seq) |-> seq[Len(seq) + 1 - i]]

\* What the Fisher-Yates loop of lines 49-53 can leave in ids.
Shuffles(ids) ==
  {perm \in [1..Len(ids) -> SeqToSet(ids)] : \A i \in 1..Len(ids) : \E j \in 1..Len(ids) : perm[j] = ids[i]}

seekKeepingPosition(p, value, ready) == syncFromAudioElement(p, ready)

\* seek, lines 81-89.
seek(p, value, ready) ==
  syncFromAudioElement([p EXCEPT !.currentTime = clamp(value, 0, p.duration)], ready)

playNextWrapping(p) ==
  IF p.currentTrackId = Undefined THEN p
  ELSE LET index == IndexOf(p.orderedTrackIds, p.currentTrackId[1])
       IN IF index = 0 THEN p
          ELSE IF index + 1 <= Len(p.orderedTrackIds)
          THEN setCurrent(p, Some(p.orderedTrackIds[index + 1]))
          ELSE IF Len(p.orderedTrackIds) > 0
          THEN setCurrent(p, Some(p.orderedTrackIds[1]))
          ELSE p

playNextReshuffling(p) ==
  IF p.currentTrackId = Undefined THEN p
  ELSE LET index == IndexOf(p.orderedTrackIds, p.currentTrackId[1])
           q == [p EXCEPT !.orderedTrackIds = Reverse(@), !.shuffleOrderRef = Reverse(@)]
       IN IF index = 0 THEN p
          ELSE IF index + 1 <= Len(p.orderedTrackIds)
          THEN setCurrent(q, Some(p.orderedTrackIds[index + 1]))
          ELSE IF p.repeat = "all" /\ Len(p.orderedTrackIds) > 0
          THEN setCurrent(q, Some(p.orderedTrackIds[1]))
          ELSE p

\* playNext, lines 91-103.
playNext(p) ==
  IF p.currentTrackId = Undefined THEN p
  ELSE LET index == IndexOf(p.orderedTrackIds, p.currentTrackId[1])
       IN IF index = 0 THEN p
          ELSE IF index + 1 <= Len(p.orderedTrackIds)
          THEN setCurrent(p, Some(p.orderedTrackIds[index + 1]))
          ELSE IF p.repeat = "all" /\ Len(p.orderedTrackIds) > 0
          THEN setCurrent(p, Some(p.orderedTrackIds[1]))
          ELSE p

\* playPrev, lines 105-117.
playPrev(p) ==
  IF p.currentTrackId = Undefined THEN p
  ELSE LET index == IndexOf(p.orderedTrackIds, p.currentTrackId[1])
       IN IF index = 0 THEN p
          ELSE IF index - 1 >= 1
          THEN setCurrent(p, Some(p.orderedTrackIds[index - 1]))
          ELSE IF p.repeat = "all" /\ Len(p.orderedTrackIds) > 0
          THEN setCurrent(p, Some(p.orderedTrackIds[Len(p.orderedTrackIds)]))
          ELSE p

\* The load effect will call load() again after q over the library list: its
\* dependencies differ from those of its last run and the current track is
\* in the list. A step that brings this about needs a load left to start.
WithinLoads(q, list) ==
  (/\ <<q.currentTrackId, q.repeat, TrackIds(list), q.shuffle>>
        # <<q.loadDeps[1], q.loadDeps[3], q.loadDeps[4][1], q.loadDeps[4][2]>>
   /\ currentTrack(list, q.currentTrackId) # Undefined)
  => Len(q.loads) < MaxLoads

\* The render after the track list or the shuffle flag changed: the memo of
\* lines 57-60 is computed from the order the ref holds during the render,
\* and the effect of lines 47-55 stores a new permutation in the ref after it.
RenderQueue(perm) ==
  /\ QueueRenderPending(player)
  /\ perm \in Shuffles(TrackIds(tracks))
  /\ ~player.shuffle => perm = TrackIds(tracks)
  /\ LET p == player
         ids == TrackIds(tracks)
         ordered == IF ~p.shuffle THEN ids
                    ELSE IF Len(p.shuffleOrderRef) > 0 THEN p.shuffleOrderRef ELSE ids
     IN player' = [p EXCEPT !.orderedTrackIds = ordered,
                            !.shuffleOrderRef = IF p.shuffle THEN perm ELSE @,
                            !.queueDeps = <<ids, p.shuffle>>]
  /\ UNCHANGED <<importVars, signed, database, engine, libraryLoad>>

\* The shuffle button, PlayerPage.tsx line 71: the store's toggleShuffle.
ToggleShuffle ==
  /\ TaskBoundary(player)
  /\ LET q == [player EXCEPT !.shuffle = ~@]
     IN WithinLoads(q, tracks) /\ player' = q
  /\ UNCHANGED <<importVars, signed, database, engine, libraryLoad>>

\* The repeat button, PlayerPage.tsx line 106: the store's cycleRepeat.
CycleRepeat ==
  /\ TaskBoundary(player)
  /\ LET q == [player EXCEPT !.repeat = IF @ = "off" THEN "all"
                                         ELSE IF @ = "all" THEN "one" ELSE "off"]
     IN WithinLoads(q, tracks) /\ player' = q
  /\ UNCHANGED <<importVars, signed, database, engine, libraryLoad>>

\* The store's addTracks with one imported track, which the import has
\* written to the Track Store.
AddTracks(track) ==
  /\ TaskBoundary(player)
  /\ Len(tracks) < MaxTracks
  /\ track.id \notin SeqToSet(TrackIds(tracks))
  /\ WithinLoads(player, <<track>> \o tracks)
  /\ tracks' = <<track>> \o tracks
  /\ store' = store \cup {track}
  /\ UNCHANGED <<importStatus, importProgress, importFailures, aborted, run, player, signed, database, engine, libraryLoad>>

\* The store's removeTrack, of a track no load() is resolving the source of.
RemoveTrack(id) ==
  /\ TaskBoundary(player)
  /\ id \in SeqToSet(TrackIds(tracks))
  /\ \A l \in 1..Len(player.loads) :
       player.loads[l].pc = "resolving" => player.loads[l].track # id
  /\ LET list == SelectSeq(tracks, LAMBDA t : t.id # id)
     IN /\ WithinLoads(player, list)
        /\ tracks' = list
        /\ store' = {t \in store : t.id # id}
  /\ UNCHANGED <<importStatus, importProgress, importFailures, aborted, run, player, signed, database, engine, libraryLoad>>

\* The next button, PlayerPage.tsx line 99.
PressNext ==
  /\ TaskBoundary(player)
  /\ WithinLoads(playNext(player), tracks)
  /\ player' = playNext(player)
  /\ UNCHANGED <<importVars, signed, database, engine, libraryLoad>>

\* The previous button, PlayerPage.tsx line 80.
PressPrev ==
  /\ TaskBoundary(player)
  /\ WithinLoads(playPrev(player), tracks)
  /\ player' = playPrev(player)
  /\ UNCHANGED <<importVars, signed, database, engine, libraryLoad>>

\* The output plays the source to its end: the position is the duration, the
\* element pauses itself and fires pause, which runs onPauseEvent, and then
\* ended, which runs onEnded, lines 251-259.
Ended(ready) ==
  /\ TaskBoundary(player)
  /\ player.src # Undefined
  /\ ~player.paused
  /\ LET p == player
         atEnd == [p EXCEPT !.currentTime = MaxTime, !.duration = MaxTime, !.paused = TRUE]
         paused == syncFromAudioElement(atEnd, ready)
         q == IF p.repeat = "one"
              THEN playCall(seek(paused, 0, ready), "ended")
              ELSE playNext(setLastKnownShouldBePlaying(paused, FALSE))
     IN /\ p.repeat = "one" => CanCall(p)
        /\ WithinLoads(q, tracks)
        /\ player' = q
  /\ UNCHANGED <<importVars, signed, database, engine, libraryLoad>>

\* The output has read the metadata of its source: loadedmetadata fires and
\* onLoaded runs, lines 230-233.
LoadedMetadata(ready) ==
  /\ TaskBoundary(player)
  /\ player.src # Undefined
  /\ player.duration = 0
  /\ player' = syncFromAudioElement([player EXCEPT !.duration = MaxTime], ready)
  /\ UNCHANGED <<importVars, signed, database, engine, libraryLoad>>

\* The position slider, PlayerPage.tsx lines 60-61, or the media session's
\* seekto handler, line 167: seek(value).
Seek(value, ready) ==
  /\ TaskBoundary(player)
  /\ player.currentTrackId # Undefined
  /\ player' = seek(player, value, ready)
  /\ UNCHANGED <<importVars, signed, database, engine, libraryLoad>>

(* ------------------------------------------------- native app: the database *)

\* The tracks of one saveMany call and the track ids of one replace call.
MaxBatch == 2

\* The SQLite connection of line 6: whether a transaction is open, the rows
\* of its tables as a statement sees them, and the rows to go back to when
\* the open transaction is rolled back. calls are the two runInTransaction
\* users under way.
Callers == {1, 2}

IdleCall == [op |-> "none", pc |-> "idle", statements |-> <<>>, next |-> 0]

ClosedDatabase(rows) ==
  [inTransaction |-> FALSE, rows |-> rows, journal |-> rows,
   calls |-> [c \in Callers |-> IdleCall]]

\* BEGIN TRANSACTION: refused inside a transaction.
execBegin(db) ==
  IF db.inTransaction THEN [ok |-> FALSE, db |-> db]
  ELSE [ok |-> TRUE, db |-> [db EXCEPT !.inTransaction = TRUE, !.journal = db.rows]]

\* COMMIT: refused when no transaction is active.
execCommit(db) ==
  IF db.inTransaction THEN [ok |-> TRUE, db |-> [db EXCEPT !.inTransaction = FALSE]]
  ELSE [ok |-> FALSE, db |-> db]

\* ROLLBACK: refused when no transaction is active.
execRollback(db) ==
  IF db.inTransaction
  THEN [ok |-> TRUE, db |-> [db EXCEPT !.inTransaction = FALSE, !.rows = db.journal]]
  ELSE [ok |-> FALSE, db |-> db]

\* One INSERT OR REPLACE or DELETE. outcome "ok": the statement takes
\* effect, in the open transaction or, without one, at once; "abort": it
\* fails and leaves the transaction as it is; "rollback": it fails with an
\* error on which SQLite rolls the open transaction back by itself (disk
\* full, I/O error, out of memory).
execStatement(db, statement, outcome) ==
  IF outcome = "ok"
  THEN [ok |-> TRUE,
        db |-> [db EXCEPT !.rows = IF statement.op = "put" THEN @ \cup {statement.row}
                                   ELSE {row \in @ : row[1] # statement.table}]]
  ELSE IF outcome = "rollback" /\ db.inTransaction
  THEN [ok |-> FALSE, db |-> [db EXCEPT !.inTransaction = FALSE, !.rows = db.journal]]
  ELSE [ok |-> FALSE, db |-> db]

\* trackRepo.saveMany(tracks), lines 63-66: up to the BEGIN of runInTransaction.
SaveMany(c, ids) ==
  /\ database.calls[c].pc = "idle"
  /\ database' = [database EXCEPT !.calls[c] =
       IF Len(ids) = 0 THEN [IdleCall EXCEPT !.op = "saveMany", !.pc = "returned"]
       ELSE [op |-> "saveMany", pc |-> "begin", next |-> 1,
             statements |-> [i \in 1..Len(ids) |->
                               [op |-> "put", row |-> <<"tracks", ids[i]>>]]]]
  /\ UNCHANGED <<importVars, player, signed, engine, libraryLoad>>

\* playlistTrackRepo.replace(playlistId, trackIds), lines 125-126.
Replace(c, ids) ==
  /\ database.calls[c].pc = "idle"
  /\ database' = [database EXCEPT !.calls[c] =
       [op |-> "replace", pc |-> "begin", next |-> 1,
        statements |-> <<[op |-> "delete", table |-> "playlist_tracks"]>> \o
                       [i \in 1..Len(ids) |->
                          [op |-> "put", row |-> <<"playlist_tracks", ids[i]>>]]]]
  /\ UNCHANGED <<importVars, player, signed, engine, libraryLoad>>

\* runInTransaction line 11: BEGIN TRANSACTION, outside the try.
Begin(c) ==
  /\ database.calls[c].pc = "begin"
  /\ LET r == execBegin(database)
     IN database' = [r.db EXCEPT !.calls[c].pc = IF r.ok THEN "runner" ELSE "threw"]
  /\ UNCHANGED <<importVars, player, signed, engine, libraryLoad>>

\* runInTransaction line 13: the next statement of the runner.
RunStatement(c, outcome) ==
  /\ database.calls[c].pc = "runner"
  /\ LET call == database.calls[c]
         r == execStatement(database, call.statements[call.next], outcome)
     IN database' = [r.db EXCEPT !.calls[c] =
          [call EXCEPT !.next = @ + 1,
                       !.pc = IF ~r.ok THEN "rollback"
                              ELSE IF call.next = Len(call.statements) THEN "commit"
                              ELSE "runner"]]
  /\ UNCHANGED <<importVars, player, signed, engine, libraryLoad>>

\* runInTransaction line 14: COMMIT; its failure is caught like the runner's.
Commit(c) ==
  /\ database.calls[c].pc = "commit"
  /\ LET r == execCommit(database)
     IN database' = [r.db EXCEPT !.calls[c].pc = IF r.ok THEN "returned" ELSE "rollback"]
  /\ UNCHANGED <<importVars, player, signed, engine, libraryLoad>>

\* runInTransaction lines 15-18: ROLLBACK, then the error is thrown (that of
\* the ROLLBACK when it is refused).
Rollback(c) ==
  /\ database.calls[c].pc = "rollback"
  /\ database' = [execRollback(database).db EXCEPT !.calls[c].pc = "threw"]
  /\ UNCHANGED <<importVars, player, signed, engine, libraryLoad>>

(* ---------------------------------------------- native app: the AudioEngine *)

\* The tracks of the native library, which are also its queue, in order.
MaxNativeTracks == 3

NativeTrackIds == 1..MaxNativeTracks

\* A track of the native store: its id and the uri of its file.
NativeTrack(id) == [id |-> id, uri |-> <<"file", id>>]

\* The load() calls under way.
LoadCalls == {1, 2}

IdleLoad == [pc |-> "idle", track |-> Undefined, caller |-> "none"]

\* The engine with its one Sound, the store's currentTrackId and error, and
\* its load() calls. The Sound is expo-av's: loaded and loading are its
\* flags, uri the source it holds.
NewEngine(loadedId) ==
  [sound |-> [loaded |-> loadedId # Undefined, loading |-> FALSE,
              uri |-> IF loadedId = Undefined THEN Undefined
                      ELSE NativeTrack(loadedId[1]).uri],
   currentTrack |-> loadedId,
   currentTrackId |-> loadedId,
   error |-> FALSE,
   loads |-> [c \in LoadCalls |-> IdleLoad]]

\* next(), lines 147-154: the id after currentTrackId in the queue, the first
\* id when currentTrackId is the last or not in the queue.
NextInQueue(currentTrackId) ==
  IF currentTrackId # Undefined /\ currentTrackId[1] < MaxNativeTracks
  THEN currentTrackId[1] + 1
  ELSE 1

\* load() lines 48-53: initialize() and ensureSound() return the Sound of an
\* engine already initialized, and getStatusAsync is called.
CallLoad(c, id, caller) ==
  /\ engine.loads[c].pc = "idle"
  /\ engine' = [engine EXCEPT !.loads[c] =
                  [pc |-> "status", track |-> Some(NativeTrack(id)), caller |-> caller]]
  /\ UNCHANGED <<importVars, player, signed, database, libraryLoad>>

\* The user taps a track of the list.
TapTrack(c, id) == CallLoad(c, id, "tap")

\* handlePlaybackStatus lines 220-232 and next() lines 147-158: a status with
\* didJustFinish arrives from the loaded Sound and next() loads the track
\* after the store's current one.
TrackFinished(c) ==
  /\ engine.sound.loaded
  /\ CallLoad(c, NextInQueue(engine.currentTrackId), "next")

\* load() lines 58-71, from the assignment of currentTrack to the call of
\* sound.loadAsync, which throws at once when the Sound is loading or loaded
\* and else marks the Sound as loading; the catch of lines 79-81 sets the error.
Proceed(e, c) ==
  LET track == e.loads[c].track[1]
      named == [e EXCEPT !.currentTrack = Some(track.id),
                         !.currentTrackId = Some(track.id)]
  IN IF e.sound.loading \/ e.sound.loaded
     THEN [named EXCEPT !.error = TRUE, !.loads[c].pc = "done"]
     ELSE [named EXCEPT !.sound.loading = TRUE, !.loads[c].pc = "loadAsync"]

\* load() lines 53-56: getStatusAsync resolves; a loaded Sound is unloaded
\* (unloadAsync clears the Sound's loaded flag when called), a Sound that is
\* not loaded is given the track at once.
StatusResolves(c) ==
  /\ engine.loads[c].pc = "status"
  /\ engine' = IF engine.sound.loaded
               THEN [engine EXCEPT !.sound.loaded = FALSE, !.loads[c].pc = "unloadAsync"]
               ELSE Proceed(engine, c)
  /\ UNCHANGED <<importVars, player, signed, database, libraryLoad>>

\* load() line 55: unloadAsync resolves.
UnloadResolves(c) ==
  /\ engine.loads[c].pc = "unloadAsync"
  /\ engine' = Proceed(engine, c)
  /\ UNCHANGED <<importVars, player, signed, database, libraryLoad>>

\* load() lines 66-76: loadAsync resolves, the Sound holding the track's uri,
\* and playAsync is called; or loadAsync rejects.
LoadAsyncSettles(c, ok) ==
  /\ engine.loads[c].pc = "loadAsync"
  /\ engine' =
       IF ok
       THEN [engine EXCEPT !.sound = [loaded |-> TRUE, loading |-> FALSE,
                                      uri |-> engine.loads[c].track[1].uri],
                           !.loads[c].pc = "playAsync"]
       ELSE [engine EXCEPT !.sound.loading = FALSE, !.error = TRUE,
                           !.loads[c].pc = "done"]
  /\ UNCHANGED <<importVars, player, signed, database, libraryLoad>>

\* load() lines 74-78: playAsync resolves, or rejects because the Sound is
\* not loaded any more; then syncStatus is awaited.
PlayAsyncSettles(c) ==
  /\ engine.loads[c].pc = "playAsync"
  /\ engine' = IF engine.sound.loaded
               THEN [engine EXCEPT !.loads[c].pc = "syncStatus"]
               ELSE [engine EXCEPT !.error = TRUE, !.loads[c].pc = "done"]
  /\ UNCHANGED <<importVars, player, signed, database, libraryLoad>>

\* load() line 78: syncStatus resolves and load() returns.
SyncStatusResolves(c) ==
  /\ engine.loads[c].pc = "syncStatus"
  /\ engine' = [engine EXCEPT !.loads[c].pc = "done"]
  /\ UNCHANGED <<importVars, player, signed, database, libraryLoad>>

(* ------------------------------------------------------ the import's specs *)

vars == <<store, tracks, importStatus, importProgress, importFailures, aborted, run, player, signed, database, engine, libraryLoad>>

\* loadLibrary at startup: the Library State holds the stored records.
LibraryOf(db) == IF db = {} THEN <<>> ELSE <<CHOOSE t \in db : TRUE>>

ImportInit ==
  /\ store \in InitialStores
  /\ tracks = LibraryOf(store)
  /\ importStatus = "idle"
  /\ importProgress = EMPTY_IMPORT_PROGRESS
  /\ importFailures = <<>>
  /\ aborted = [r \in Runs |-> FALSE]
  /\ run = [r \in Runs |-> IdleRun]

\* The options a caller can pass: chunkSize and concurrency given or left to
\* their defaults, autoImport from the settings.
ImportOptions ==
  [chunkSize : {Undefined} \cup {Some(k) : k \in 0..MaxChunkSize},
   concurrency : {Undefined} \cup {Some(k) : k \in 1..MaxConcurrency},
   autoImport : BOOLEAN]

DefaultOptions ==
  [chunkSize : {Undefined, Some(1)}, concurrency : {Undefined}, autoImport : {FALSE}]

\* The steps of call r other than its start. MetaThrows, SaveOk: whether
\* readAudioMetadata may throw and handleRepo.save may resolve in the
\* specification at hand.
ImportStep(r, MetaThrows, SaveOk) ==
  \/ GetAllResolves(r)
  \/ GetAllRejects(r)
  \/ \E i \in run[r].inflight, metaThrows \in MetaThrows, saveOk \in SaveOk,
        buildThrows \in BOOLEAN :
       MapperSettles(r, i, metaThrows, saveOk, buildThrows)
  \/ WriteResolves(r)
  \/ WriteRejects(r)
  \/ RetryWrite(r)
  \/ NextChunk(r)
  \/ Abort(r)

Init ==
  /\ ImportInit /\ player = MountedPlayer(tracks) /\ signed = Undefined
  /\ database = Undefined /\ engine = Undefined /\ libraryLoad = Undefined

\* One importFilesChunked call, with every option.
Next ==
  \/ \E candidates \in CandidateLists(MaxCandidates), opts \in ImportOptions :
       StartImport(1, candidates, opts)
  \/ ImportStep(1, BOOLEAN, BOOLEAN)

Spec == Init /\ [][Next]_vars

\* One importFilesChunked call whose awaits all settle: getAll and upsertAll
\* resolve or reject, each mapper call settles, and yieldToUI resolves (the
\* frame callback or the timer of part_016 lines 11-18 fires). The caller may
\* abort at any time or never.
Settles(r) ==
  \/ GetAllResolves(r)
  \/ GetAllRejects(r)
  \/ \E i \in run[r].inflight, metaThrows \in BOOLEAN, saveOk \in BOOLEAN,
        buildThrows \in BOOLEAN :
       MapperSettles(r, i, metaThrows, saveOk, buildThrows)
  \/ WriteResolves(r)
  \/ WriteRejects(r)
  \/ RetryWrite(r)
  \/ NextChunk(r)

NextLive ==
  \/ \E candidates \in CandidateLists(MaxCandidates), opts \in ImportOptions :
       StartImport(1, candidates, opts)
  \/ Settles(1)
  \/ Abort(1)

\* One importFilesChunked call and one loadLibrary call (the app's mount,
\* part_013 line 32), the steps of either in any order.
InitLibrary ==
  /\ ImportInit /\ player = MountedPlayer(tracks) /\ signed = Undefined
  /\ database = Undefined /\ engine = Undefined /\ libraryLoad = IdleLoading

NextLibrary ==
  \/ \E candidates \in CandidateLists(MaxTwiceCandidates), opts \in DefaultOptions :
       StartImport(1, candidates, opts)
  \/ ImportStep(1, BOOLEAN, {TRUE})
  \/ LoadLibrary
  \/ LibraryGetAllResolves
  \/ LibraryGetAllRejects
  \/ \E changed \in SUBSET libraryLoad.incomplete : RepairLoopEnds(changed)
  \/ RepairWriteResolves
  \/ RepairWriteRejects

SpecLibrary == InitLibrary /\ [][NextLibrary]_vars

SpecLive == Init /\ [][NextLive]_vars /\ WF_vars(Settles(1))

\* run[r] is the r-th call: the calls start in the order of their numbers.
InOrder(r) == \A q \in Runs : q < r => run[q].pc # "idle"

\* No call is under way: what the import buttons wait for (isBusy).
NoneRunning == \A q \in Runs : run[q].pc \in {"idle", "done", "error"}

\* Calls one after the other, as the import pages issue them.
NextTwice ==
  \/ \E r \in Runs, candidates \in CandidateLists(MaxTwiceCandidates),
        opts \in DefaultOptions :
       /\ InOrder(r)
       /\ NoneRunning
       /\ StartImport(r, candidates, opts)
  \/ \E r \in Runs : ImportStep(r, {FALSE}, {TRUE})

SpecTwice == Init /\ [][NextTwice]_vars

\* Calls that may overlap: importFilesChunked itself has no guard.
NextOverlap ==
  \/ \E r \in Runs, candidates \in CandidateLists(MaxOverlapCandidates),
        opts \in DefaultOptions :
       /\ InOrder(r)
       /\ StartImport(r, candidates, opts)
  \/ \E r \in Runs : ImportStep(r, {FALSE}, {TRUE})

SpecOverlap == Init /\ [][NextOverlap]_vars

\* One import of MaxManyCandidates files with names of their own into an
\* empty library, in chunks of ManyChunkSize or in one chunk: extraction
\* fails for every file but, possibly, the first MaxSucceeding.
ManyCandidates ==
  [i \in 1..MaxManyCandidates |-> toCandidate(File(ToString(i)), FALSE, Undefined)]

ManyOptions ==
  [chunkSize : {Undefined, Some(ManyChunkSize)}, concurrency : {Some(1), Some(2)},
   autoImport : {FALSE}]

InitMany ==
  /\ store = {}
  /\ tracks = <<>>
  /\ importStatus = "idle"
  /\ importProgress = EMPTY_IMPORT_PROGRESS
  /\ importFailures = <<>>
  /\ aborted = [r \in Runs |-> FALSE]
  /\ run = [r \in Runs |-> IdleRun]
  /\ player = MountedPlayer(tracks)
  /\ signed = Undefined
  /\ database = Undefined
  /\ engine = Undefined /\ libraryLoad = Undefined

NextMany ==
  \/ \E opts \in ManyOptions : StartImport(1, ManyCandidates, opts)
  \/ GetAllResolves(1)
  \/ \E i \in run[1].inflight, buildThrows \in BOOLEAN :
       /\ run[1].pc = "mapping"
       /\ buildThrows \/ run[1].chunks[run[1].ci][i] <= MaxSucceeding
       /\ MapperSettles(1, i, FALSE, TRUE, buildThrows)
  \/ WriteResolves(1)
  \/ WriteRejects(1)
  \/ RetryWrite(1)
  \/ NextChunk(1)

SpecMany == InitMany /\ [][NextMany]_vars

\* The playback engine over a loaded library, no import under way.
InitPlayer ==
  /\ store = SeqToSet(PlayerTracks)
  /\ tracks = PlayerTracks
  /\ importStatus = "idle"
  /\ importProgress = EMPTY_IMPORT_PROGRESS
  /\ importFailures = <<>>
  /\ aborted = [r \in Runs |-> FALSE]
  /\ run = [r \in Runs |-> IdleRun]
  /\ player = MountedPlayer(tracks)
  /\ signed = Undefined
  /\ database = Undefined
  /\ engine = Undefined /\ libraryLoad = Undefined

NextPlayer ==
  \/ \E i \in 1..Len(tracks) : SelectTrack(tracks[i].id)
  \/ LoadEffect
  \/ \E l \in 1..MaxLoads, stored \in BOOLEAN, ready \in BOOLEAN :
       /\ (stored /\ ready) \/ (l <= Len(player.loads) /\ player.loads[l].awaits /\ ~stored)
       /\ ResolveTrackSrc(l, stored, ready)
  \/ \E l \in 1..MaxLoads : ResolveTrackSrcThrows(l)
  \/ \E ready \in BOOLEAN : PlaybackEffect(ready)
  \/ PressPlay
  \/ \E ready \in BOOLEAN : PressPause(ready)
  \/ \E k \in 1..MaxCalls, started \in BOOLEAN, paused \in BOOLEAN, ready \in BOOLEAN :
       PlaySettle(k, started, paused, ready)
  \/ \E k \in 1..MaxCalls : ReleaseWakeLockReturns(k)
  \/ \E k \in 1..MaxCalls, granted \in BOOLEAN : RequestWakeLockReturns(k, granted)

SpecPlayer == InitPlayer /\ [][NextPlayer]_vars

\* The engine with one blob-backed track, the platform's interruptions and
\* the lifecycle events.
LifecycleTracks == <<OldTrack(<<0, 2>>, Undefined, Undefined)>>

InitLifecycle ==
  /\ store = SeqToSet(LifecycleTracks)
  /\ tracks = LifecycleTracks
  /\ importStatus = "idle"
  /\ importProgress = EMPTY_IMPORT_PROGRESS
  /\ importFailures = <<>>
  /\ aborted = [r \in Runs |-> FALSE]
  /\ run = [r \in Runs |-> IdleRun]
  /\ player = MountedPlayer(tracks)
  /\ signed = Undefined
  /\ database = Undefined
  /\ engine = Undefined /\ libraryLoad = Undefined

NextLifecycle ==
  \/ \E i \in 1..Len(tracks) : SelectTrack(tracks[i].id)
  \/ LoadEffect
  \/ \E l \in 1..MaxLoads : ResolveTrackSrc(l, TRUE, TRUE)
  \/ \E ready \in BOOLEAN : PlaybackEffect(ready)
  \/ PressPlay
  \/ \E ready \in BOOLEAN : PressPause(ready)
  \/ \E k \in 1..MaxCalls, started \in BOOLEAN, paused \in BOOLEAN, ready \in BOOLEAN :
       PlaySettle(k, started, paused, ready)
  \/ \E k \in 1..MaxCalls : ReleaseWakeLockReturns(k)
  \/ \E k \in 1..MaxCalls, granted \in BOOLEAN : RequestWakeLockReturns(k, granted)
  \/ \E ready \in BOOLEAN : PlatformPause(ready)
  \/ \E paused \in BOOLEAN : AudioError(paused)
  \/ \E hidden \in BOOLEAN, error \in BOOLEAN, ready \in BOOLEAN, ended \in BOOLEAN :
       Lifecycle(hidden, error, ready, ended)
  \/ \E k \in 1..MaxCalls, started \in BOOLEAN, paused \in BOOLEAN, ready \in BOOLEAN :
       ResumeSettle(k, started, paused, ready)

SpecLifecycle == InitLifecycle /\ [][NextLifecycle]_vars

\* The engine over a library of blob-backed tracks that grows and shrinks,
\* with the queue's buttons and the end of a track, on a platform that starts
\* every playback asked for and grants every wake lock.
QueueTrack(n) == OldTrack(<<0, n>>, Undefined, Undefined)
QueueTracks == <<QueueTrack(1), QueueTrack(2)>>

InitQueue ==
  /\ store = SeqToSet(QueueTracks)
  /\ tracks = QueueTracks
  /\ importStatus = "idle"
  /\ importProgress = EMPTY_IMPORT_PROGRESS
  /\ importFailures = <<>>
  /\ aborted = [r \in Runs |-> FALSE]
  /\ run = [r \in Runs |-> IdleRun]
  /\ player = MountedPlayer(tracks)
  /\ signed = Undefined
  /\ database = Undefined
  /\ engine = Undefined /\ libraryLoad = Undefined

NextQueue ==
  \/ \E i \in 1..Len(tracks) : SelectTrack(tracks[i].id)
  \/ LoadEffect
  \/ \E l \in 1..MaxLoads : ResolveTrackSrc(l, TRUE, TRUE)
  \/ PlaybackEffect(TRUE)
  \/ \E k \in 1..MaxCalls : PlaySettle(k, TRUE, FALSE, TRUE)
  \/ \E k \in 1..MaxCalls : RequestWakeLockReturns(k, TRUE)
  \/ \E perm \in Shuffles(TrackIds(tracks)) : RenderQueue(perm)
  \/ ToggleShuffle
  \/ CycleRepeat
  \/ \E n \in 1..MaxTracks : AddTracks(QueueTrack(n))
  \/ \E i \in 1..Len(tracks) : RemoveTrack(tracks[i].id)
  \/ PressNext
  \/ PressPrev
  \/ Ended(TRUE)

SpecQueue == InitQueue /\ [][NextQueue]_vars

\* The engine over the library of SpecPlayer, on a platform that grants every
\* wake lock, with the output's metadata event and seeks to positions before,
\* within and past the track.
SeekValues == (0 - 1)..(MaxTime + 1)

NextSeek ==
  \/ \E i \in 1..Len(tracks) : SelectTrack(tracks[i].id)
  \/ LoadEffect
  \/ \E l \in 1..MaxLoads : ResolveTrackSrc(l, TRUE, TRUE)
  \/ PlaybackEffect(TRUE)
  \/ \E k \in 1..MaxCalls, started \in BOOLEAN : PlaySettle(k, started, ~started, TRUE)
  \/ \E k \in 1..MaxCalls : ReleaseWakeLockReturns(k)
  \/ \E k \in 1..MaxCalls : RequestWakeLockReturns(k, TRUE)
  \/ LoadedMetadata(TRUE)
  \/ \E value \in SeekValues : Seek(value, TRUE)

SpecSeek == InitPlayer /\ [][NextSeek]_vars

\* Two runInTransaction users on the connection: a saveMany, and a second
\* saveMany or a playlistTrackRepo.replace, each step of either in any order.
Batches(c) == {[i \in 1..n |-> <<c, i>>] : n \in 0..MaxBatch}

InitDatabase ==
  /\ store = {}
  /\ tracks = <<>>
  /\ importStatus = "idle"
  /\ importProgress = EMPTY_IMPORT_PROGRESS
  /\ importFailures = <<>>
  /\ aborted = [r \in Runs |-> FALSE]
  /\ run = [r \in Runs |-> IdleRun]
  /\ player = MountedPlayer(tracks)
  /\ signed = Undefined
  /\ database = ClosedDatabase({<<"playlist_tracks", <<0, 1>>>>})
  /\ engine = Undefined /\ libraryLoad = Undefined

NextDatabase ==
  \/ \E c \in Callers : \E ids \in Batches(c) : SaveMany(c, ids)
  \/ \E ids \in Batches(2) : Replace(2, ids)
  \/ \E c \in Callers : Begin(c)
  \/ \E c \in Callers, outcome \in {"ok", "abort", "rollback"} : RunStatement(c, outcome)
  \/ \E c \in Callers : Commit(c)
  \/ \E c \in Callers : Rollback(c)

SpecDatabase == InitDatabase /\ [][NextDatabase]_vars

\* Two load() calls on the engine's Sound, each started by a tap or by the
\* end of the loaded track, the steps of either in any order.
InitEngine ==
  /\ store = {}
  /\ tracks = <<>>
  /\ importStatus = "idle"
  /\ importProgress = EMPTY_IMPORT_PROGRESS
  /\ importFailures = <<>>
  /\ aborted = [r \in Runs |-> FALSE]
  /\ run = [r \in Runs |-> IdleRun]
  /\ player = MountedPlayer(tracks)
  /\ signed = Undefined
  /\ database = Undefined
  /\ engine \in {NewEngine(Undefined), NewEngine(Some(1))}
  /\ libraryLoad = Undefined

NextEngine ==
  \/ \E c \in LoadCalls, id \in NativeTrackIds : TapTrack(c, id)
  \/ \E c \in LoadCalls : TrackFinished(c)
  \/ \E c \in LoadCalls : StatusResolves(c)
  \/ \E c \in LoadCalls : UnloadResolves(c)
  \/ \E c \in LoadCalls, ok \in BOOLEAN : LoadAsyncSettles(c, ok)
  \/ \E c \in LoadCalls : PlayAsyncSettles(c)
  \/ \E c \in LoadCalls : SyncStatusResolves(c)

SpecEngine == InitEngine /\ [][NextEngine]_vars

\* buildFileSignature on two picked files: names and paths that differ in
\* letter case, in the white space around them or in more, and sizes and
\* modification times up to the bounds.
SignatureNames == {"a.mp3", "A.mp3", " a.mp3", "b.mp3"}
SignaturePaths == {Undefined, Some(""), Some("Music/A.mp3"), Some("music/a.mp3 ")}
SignatureInputs ==
  {[file |-> [name |-> n, size |-> s, lastModified |-> t], sourcePath |-> sp] :
     n \in SignatureNames, s \in 1..MaxSize, t \in 1..MaxModified, sp \in SignaturePaths}

InitSignature ==
  /\ store = {}
  /\ tracks = <<>>
  /\ importStatus = "idle"
  /\ importProgress = EMPTY_IMPORT_PROGRESS
  /\ importFailures = <<>>
  /\ aborted = [r \in Runs |-> FALSE]
  /\ run = [r \in Runs |-> IdleRun]
  /\ player = MountedPlayer(tracks)
  /\ signed \in {[left |-> x, right |-> y, signatures |-> Undefined] :
                  x \in SignatureInputs, y \in SignatureInputs}
  /\ database = Undefined
  /\ engine = Undefined /\ libraryLoad = Undefined

BuildSignatures ==
  /\ signed.signatures = Undefined
  /\ signed' = [signed EXCEPT !.signatures =
                  Some(<<buildFileSignature(signed.left.file, signed.left.sourcePath),
                         buildFileSignature(signed.right.file, signed.right.sourcePath)>>)]
  /\ UNCHANGED <<importVars, player, database, engine, libraryLoad>>

NextSignature == BuildSignatures

SpecSignature == InitSignature /\ [][NextSignature]_vars

(* ----------------------------------------------------------------- claims *)

Ids(records) == {t.id : t \in records}
Result(r) == run[r].result[1]
Completed(r) == run[r].pc = "done" /\ ~Result(r).canceled
Canceled(r) == run[r].pc = "done" /\ Result(r).canceled

\* Candidate i of call r has a signature the call knows already: that of a
\* stored record when the call read the Track Store, or that of an earlier
\* candidate of its list.
Known(r, i) ==
  \/ run[r].candidates[i].signature \in run[r].existing
  \/ \E j \in 1..(i - 1) : run[r].candidates[j].signature = run[r].candidates[i].signature

KnownSet(r) == {i \in 1..Len(run[r].candidates) : Known(r, i)}

\* C1: when importFilesChunked completes without being canceled, the counts
\* it returns satisfy imported + skipped + failed = total, total being the
\* number of candidates.
C1_CountsAddUp ==
  \A r \in Runs :
    Completed(r) =>
      /\ Result(r).total = Len(run[r].candidates)
      /\ Result(r).imported + Result(r).skipped + Result(r).failed = Result(r).total

\* A completed import of three files: one skipped, one failed, one imported.
C1_Witness ==
  /\ Completed(1)
  /\ Result(1).imported = 1 /\ Result(1).skipped = 1 /\ Result(1).failed = 1

C3_KnownSignaturesSkipped ==
  \A r \in Runs :
    /\ \A i \in KnownSet(r) :
         /\ i \notin run[r].extracted
         /\ <<r, i>> \notin run[r].wrote
         /\ <<r, i>> \notin Ids(store) \cup Ids(SeqToSet(tracks))
    /\ run[r].pc \in {"mapping", "write", "retryYield", "yield", "done"} =>
         run[r].skipped = Cardinality(KnownSet(r))
    /\ (Completed(r) /\ Len(run[r].candidates) = 3 /\ Cardinality(KnownSet(r)) = 1
          /\ Result(r).failed = 0) =>
         Result(r) = [total |-> 3, imported |-> 2, skipped |-> 1, failed |-> 0,
                      canceled |-> FALSE]

\* Three files, the first of which duplicates the stored record of a.mp3.
C3_Witness ==
  /\ Completed(1)
  /\ Len(run[1].candidates) = 3
  /\ run[1].candidates[1].signature \in run[1].existing
  /\ Result(1).imported = 2 /\ Result(1).skipped = 1

\* C4 as stated: no two records of the Track Store carry the same signature.
C4_SignaturesUnique ==
  \A t, u \in store :
    (t # u /\ getTrackSignature(t) # Undefined) =>
      getTrackSignature(t) # getTrackSignature(u)

\* The chunk call r is working on, and the mapper results it holds so far.
ChunkOf(r) == run[r].chunks[run[r].ci]

Settled(r) ==
  {run[r].results[i][1] : i \in {j \in 1..Len(run[r].results) : run[r].results[j] # Undefined}}

WriteFailed(r) == run[r].upsertCalls[run[r].ci] = <<"rejected", "rejected">>
WriteSucceeded(r) ==
  Len(run[r].upsertCalls[run[r].ci]) > 0 /\
  run[r].upsertCalls[run[r].ci][Len(run[r].upsertCalls[run[r].ci])] = "resolved"
ToSaveIds(r) == {run[r].tracksToSave[k].track.id : k \in 1..Len(run[r].tracksToSave)}
LibraryIds == Ids(SeqToSet(tracks))

\* C6: upsertAll is attempted at most twice per chunk; when both attempts
\* fail every extracted record of the chunk is counted as failed with a
\* failure entry, none is in the Library State tracks or counted as imported,
\* and the import goes on (every chunk of a completed import was begun); when
\* an attempt succeeds all of the chunk's records are in the Library State
\* tracks, next to each other.
C6_ChunkWriteAllOrNothing ==
  \A r \in Runs :
    /\ \A k \in 1..Len(run[r].upsertCalls) :
         Len(run[r].upsertCalls[k]) + (IF run[r].pc = "write" /\ k = run[r].ci THEN 1 ELSE 0)
           <= 2
    /\ run[r].pc \in {"mapping", "write", "retryYield", "yield"} =>
         run[r].succeeded = Cardinality(run[r].wrote)
    /\ Completed(r) => Result(r).imported = Cardinality(run[r].wrote)
    /\ run[r].wrote \subseteq LibraryIds
    /\ (run[r].pc = "yield" /\ WriteFailed(r)) =>
         /\ ToSaveIds(r) \cap LibraryIds = {}
         /\ ToSaveIds(r) \cap run[r].wrote = {}
         /\ \A k \in 1..Len(run[r].tracksToSave) :
              \E f \in 1..Len(run[r].chunkFailures) :
                /\ run[r].chunkFailures[f].fileName = run[r].tracksToSave[k].fileName
                /\ run[r].chunkFailures[f].reason = "Chunk write failed"
         /\ Len(run[r].chunkFailures) = Len(ChunkOf(r))
    /\ (run[r].pc = "yield" /\ WriteSucceeded(r)) =>
         /\ ToSaveIds(r) \subseteq LibraryIds
         /\ ToSaveIds(r) \subseteq Ids(store)
         /\ \A k \in 1..Len(run[r].tracksToSave) :
              tracks[k] = run[r].tracksToSave[k].track
    /\ Completed(r) => Len(run[r].upsertCalls) = Len(run[r].chunks)

\* A completed import whose first chunk failed both writes and whose second
\* chunk was written at the second attempt.
C6_Witness ==
  /\ Completed(1)
  /\ run[1].upsertCalls = << <<"rejected", "rejected">>, <<"rejected", "resolved">> >>
  /\ Result(1).imported = 1 /\ Result(1).failed = 2

\* The positions of the candidates in the chunks before chunk ci.
RECURSIVE Flatten(_, _)
Flatten(chunks, n) ==
  IF n = 0 THEN {} ELSE Flatten(chunks, n - 1) \cup SeqToSet(chunks[n])

MidChunk == {"mapping", "write", "retryYield"}

\* C7: the abort signal is examined only at the head of the chunk loop. A call
\* that finds it aborted there returns canceled = true without a mapper call
\* or Track Store write for that chunk or a later one; an abort raised while a
\* chunk is in progress leaves the chunk to finish; the records of the chunks
\* written before stay in the Track Store and the Library State and are
\* reported in imported.
C7_CancelAtChunkBoundary ==
  /\ [](\A r \in Runs :
          Canceled(r) =>
            /\ aborted[r]
            /\ run[r].ci <= Len(run[r].chunks)
            /\ run[r].extracted = Flatten(run[r].chunks, run[r].ci - 1)
            /\ Len(run[r].upsertCalls) = run[r].ci - 1
            /\ run[r].wrote \subseteq Ids(store)
            /\ run[r].wrote \subseteq LibraryIds
            /\ Result(r).imported = Cardinality(run[r].wrote))
  /\ [][\A r \in Runs :
          /\ (run[r].pc # "done" /\ run'[r].pc = "done" /\ run'[r].result[1].canceled) =>
               /\ run[r].pc \in {"getAll", "yield"}
               /\ store' = store /\ tracks' = tracks
               /\ run'[r].extracted = run[r].extracted
          /\ (aborted[r] /\ run[r].pc = "yield" /\ run[r].ci < Len(run[r].chunks)
                /\ run'[r] # run[r]) =>
               run'[r].pc = "done" /\ run'[r].result[1].canceled
          /\ (aborted[r] /\ run[r].pc \in MidChunk /\ run'[r] # run[r]) =>
               /\ run'[r].pc \in MidChunk \cup {"yield"}
               /\ run'[r].ci = run[r].ci
               /\ run'[r].pc = "yield" =>
                    run'[r].processed = run[r].processed + Len(ChunkOf(r))]_vars

\* A canceled import that had written one chunk before.
C7_Witness ==
  /\ Canceled(1)
  /\ Result(1).imported = 1
  /\ run[1].ci = 2 /\ Len(run[1].chunks) = 3
  /\ Cardinality(store) = 1

Revocations(url) ==
  Cardinality({i \in 1..Len(player.revoked) : player.revoked[i] = url})

\* load j is the load of the current track B, begun while the load i = j - 1 of
\* the track A before it was still resolving its source; both have resolved
\* to an object URL.
SupersededPair(i, j) ==
  /\ j = i + 1 /\ j = Len(player.loads)
  /\ player.loads[j].raced
  /\ player.currentTrackId = Some(player.loads[j].track)
  /\ ~LoadEffectPending(player)
  /\ player.loads[i].pc = "done" /\ player.loads[i].url # Undefined
  /\ player.loads[j].pc = "done" /\ player.loads[j].url # Undefined

\* C9: when the current track is set to A and then to B before A's source has
\* resolved, then once both sources have resolved, in either order, the audio
\* element's source is B's URL and A's object URL was revoked exactly once.
C9_LateSourceDiscarded ==
  \A i, j \in 1..Len(player.loads) :
    SupersededPair(i, j) =>
      /\ player.src = player.loads[j].url
      /\ Revocations(player.loads[i].url[1]) = 1

\* What a refused play() leaves behind.
BlockedByPlatform(p) ==
  /\ ~p.lastKnownShouldBePlaying
  /\ ~p.isPlaying
  /\ p.playbackNotice # Undefined

NoCallUnderWay(p) == \A k \in 1..Len(p.calls) : p.calls[k].pc = "done"

\* C11: once playback has stopped (the element is paused, isPlaying is false,
\* no play(), pause() or resume is under way and no effect is due), no wake
\* lock sentinel the engine acquired is still unreleased.
C11_NoWakeLockOnceStopped ==
  (/\ player.paused /\ ~player.isPlaying
   /\ NoCallUnderWay(player) /\ TaskBoundary(player)) =>
    player.sentinels = {}

\* The call that begins in this step, if one does.
Begun == IF Len(player'.calls) > Len(player.calls)
         THEN Some(player'.calls[Len(player'.calls)]) ELSE Undefined

C13_RepeatOneReplays ==
  [][\A ready \in BOOLEAN :
       (Ended(ready) /\ player.repeat = "one") =>
         /\ player'.currentTime = 0
         /\ Begun # Undefined
         /\ Begun[1].op = "play" /\ Begun[1].pc = "safePlay"
         /\ player'.lastKnownShouldBePlaying
         /\ player'.currentTrackId = player.currentTrackId
         /\ player'.orderedTrackIds = player.orderedTrackIds
         /\ player'.src = player.src]_vars

C13_Witness ==
  /\ player.repeat = "one"
  /\ player.currentTime = 0 /\ player.duration = MaxTime
  /\ player.currentTrackId # Undefined
  /\ \E k \in 1..Len(player.calls) :
       player.calls[k].caller = "ended" /\ player.calls[k].pc = "safePlay"


\* C14: when the output ends a track of the queue order with repeat not
\* "one", the current track becomes the next id of the order; at the last id
\* it becomes the first id only if repeat = "all", and otherwise it stays, no
\* play() is called, the output is paused and nothing asks for playback.
C14_EndAdvancesOrStops ==
  [][\A ready \in BOOLEAN :
       LET order == player.orderedTrackIds
           index == IF player.currentTrackId = Undefined THEN 0
                    ELSE IndexOf(order, player.currentTrackId[1])
       IN (Ended(ready) /\ player.repeat # "one" /\ index >= 1) =>
            /\ index < Len(order) => player'.currentTrackId = Some(order[index + 1])
            /\ (index = Len(order) /\ player.repeat = "all") =>
                 player'.currentTrackId = Some(order[1])
            /\ (index = Len(order) /\ player.repeat # "all") =>
                 /\ player'.currentTrackId = player.currentTrackId
                 /\ Begun = Undefined
                 /\ player'.paused
                 /\ ~player'.lastKnownShouldBePlaying]_vars

C14_Witness ==
  /\ TaskBoundary(player)
  /\ player.repeat = "off"
  /\ player.currentTime = MaxTime
  /\ Len(player.orderedTrackIds) >= 2
  /\ player.currentTrackId = Some(player.orderedTrackIds[Len(player.orderedTrackIds)])
  /\ player.paused /\ ~player.lastKnownShouldBePlaying
  /\ NoCallUnderWay(player)


\* C15: while shuffle is on and the render is done, the order playNext and
\* playPrev use holds every id of the track list exactly once.
C15_ShuffledOrderIsPermutation ==
  (player.shuffle /\ TaskBoundary(player)) =>
    player.orderedTrackIds \in Shuffles(TrackIds(tracks))


\* C16: playNext, playPrev and the end of a track leave the order and the
\* stored permutation as they are: the order is computed anew only by the
\* render that follows a toggle of shuffle or a change of the track list.
C16_OrderStableUnderNext ==
  [][/\ (PressNext \/ PressPrev \/ \E ready \in BOOLEAN : Ended(ready)) =>
          /\ player'.orderedTrackIds = player.orderedTrackIds
          /\ player'.shuffleOrderRef = player.shuffleOrderRef
     /\ (\/ player'.orderedTrackIds # player.orderedTrackIds
         \/ player'.shuffleOrderRef # player.shuffleOrderRef) =>
          player.queueDeps # <<TrackIds(tracks), player.shuffle>>]_vars

C16_Witness ==
  /\ player.shuffle /\ TaskBoundary(player)
  /\ player.orderedTrackIds \in Shuffles(TrackIds(tracks))
  /\ player.orderedTrackIds # TrackIds(tracks)
  /\ Len(player.orderedTrackIds) >= 2 /\ Len(player.loads) = 2
  /\ player.loads[1].track = player.orderedTrackIds[1]
  /\ player.loads[2].track = player.orderedTrackIds[2]
  /\ player.currentTrackId = Some(player.orderedTrackIds[2])
  /\ player.loadDeps[4][2]


\* C17: no load() of the engine ends with an error that escaped it: a load
\* that has ended assigned a source or published its notice.
C17_NoErrorEscapesLoad ==
  \A l \in 1..Len(player.loads) : player.loads[l].pc \in {"resolving", "done"}


\* C20: when load() ends without a source for the current track, a playback
\* notice is set and isPlaying and lastKnownShouldBePlaying are both false,
\* so that nothing resumes the track by itself.
C20_UnresolvedSourceClearsIntent ==
  [][\A l \in 1..Len(player.loads) :
       (/\ l <= Len(player'.loads)
        /\ player.loads[l].pc = "resolving"
        /\ player'.loads[l].pc # "resolving"
        /\ player'.loads[l].url = Undefined) =>
         /\ player'.playbackNotice # Undefined
         /\ ~player'.isPlaying
         /\ ~player'.lastKnownShouldBePlaying]_vars


\* String.prototype.trim() and toLowerCase(), each on its own, on the names
\* and paths of SignatureInputs.
Trimmed(s) ==
  CASE s = " a.mp3" -> "a.mp3"
    [] s = "music/a.mp3 " -> "music/a.mp3"
    [] OTHER -> s

LowerCased(s) ==
  CASE s = "A.mp3" -> "a.mp3"
    [] s = "Music/A.mp3" -> "music/a.mp3"
    [] OTHER -> s

PathOf(input) ==
  IF input.sourcePath # Undefined /\ input.sourcePath[1] # "" THEN input.sourcePath[1]
  ELSE input.file.name

SameSizeAndTime(x, y) ==
  x.file.size = y.file.size /\ x.file.lastModified = y.file.lastModified

\* C18 as stated: two files get the same signature if and only if their
\* paths (sourcePath or, without one, the name) differ at most in letter
\* case and their sizes and modification times are equal.
C18_SameSignatureIffComposite ==
  signed # Undefined /\ signed.signatures # Undefined =>
    LET x == signed.left
        y == signed.right
    IN (signed.signatures[1][1] = signed.signatures[1][2]) <=>
         (LowerCased(PathOf(x)) = LowerCased(PathOf(y)) /\ SameSizeAndTime(x, y))

\* C18: two files get the same signature if and only if their paths
\* (sourcePath or, without one, the name), trimmed of the white space around
\* them, differ at most in letter case and their sizes and modification times
\* are equal; so a modification time one later gives another signature.
C18_SameSignatureIffNormalized ==
  signed # Undefined /\ signed.signatures # Undefined =>
    LET x == signed.left
        y == signed.right
    IN /\ (signed.signatures[1][1] = signed.signatures[1][2]) <=>
            (/\ LowerCased(Trimmed(PathOf(x))) = LowerCased(Trimmed(PathOf(y)))
             /\ SameSizeAndTime(x, y))
       /\ y.file.lastModified = x.file.lastModified + 1 =>
            signed.signatures[1][1] # signed.signatures[1][2]

C18_Witness ==
  /\ signed # Undefined /\ signed.signatures # Undefined
  /\ PathOf(signed.left) = " a.mp3" /\ PathOf(signed.right) = "A.mp3"
  /\ SameSizeAndTime(signed.left, signed.right)
  /\ signed.signatures[1][1] = signed.signatures[1][2]


\* The object URLs load() made, and those of them not revoked.
CreatedUrls == {player.loads[l].url[1] :
                  l \in {k \in 1..Len(player.loads) : player.loads[k].url # Undefined}}
LiveUrls == CreatedUrls \ SeqToSet(player.revoked)

\* C19: between tasks at most one object URL is not revoked, it is the
\* source of the output, and the source of the output is not a revoked URL.
C19_OneLiveUrlIsTheSource ==
  TaskBoundary(player) =>
    /\ Cardinality(LiveUrls) <= 1
    /\ \A url \in LiveUrls : player.src = Some(url)
    /\ player.src # Undefined => player.src[1] \notin SeqToSet(player.revoked)


\* C21: at every point of an import the published failure list holds the
\* first MAX_IMPORT_FAILURES failures of the import, in order, and no more,
\* while the published failed count is the number of all its failures.
C21_FailureListCapped ==
  LET all == run[1].everyFailure
  IN /\ Len(importFailures) <= MAX_IMPORT_FAILURES
     /\ importFailures = SubSeq(all, 1, Min(Len(all), MAX_IMPORT_FAILURES))
     /\ importProgress.failed = Len(all)

C21_Witness ==
  /\ Len(run[1].everyFailure) > MAX_IMPORT_FAILURES
  /\ Len(importFailures) = MAX_IMPORT_FAILURES
  /\ importProgress.failed = Len(run[1].everyFailure)
  /\ importFailures[1] # importFailures[MAX_IMPORT_FAILURES]


\* The candidates of chunks 1..n of call r, and whether the upsertAll calls
\* of a chunk are over: none was due, one resolved, or both were rejected.
ChunksUpTo(rec, n) ==
  UNION {SeqToSet(rec.chunks[m]) : m \in 1..Min(n, Len(rec.chunks))}

WritesOver(calls, toSave) ==
  \/ calls = <<>> /\ toSave = <<>>
  \/ calls # <<>> /\ calls[Len(calls)] = "resolved"
  \/ calls = <<"rejected", "rejected">>

\* C22: the chunks are processed one after the other. Only candidates of the
\* chunks up to the current one have been handed to the mapper, and the
\* mapper is called for a candidate of the next chunk only when every mapper
\* call of the current chunk has settled and its upsertAll attempts, the
\* retry included, are over.
C22_ChunksInSequence ==
  [][\A r \in Runs :
       /\ run'[r].pc \in {"mapping", "write", "retryYield", "yield"} =>
            run'[r].extracted \subseteq ChunksUpTo(run'[r], run'[r].ci)
       /\ (run[r].pc \in {"mapping", "write", "retryYield", "yield"} /\
           run'[r].extracted \ ChunksUpTo(run[r], run[r].ci) # {}) =>
            /\ run[r].inflight = {}
            /\ \A i \in 1..Len(run[r].results) : run[r].results[i] # Undefined
            /\ SeqToSet(run[r].chunks[run[r].ci]) \subseteq run[r].extracted
            /\ WritesOver(run[r].upsertCalls[run[r].ci], run[r].tracksToSave)]_vars

C22_Witness ==
  /\ run[1].pc = "mapping" /\ run[1].ci = 2
  /\ run[1].upsertCalls[1] = <<"rejected", "rejected">>
  /\ run[1].extracted \ ChunksUpTo(run[1], 1) # {}


\* The indices of the current chunk whose mapper call has settled.
SettledIndices(rec) == {i \in 1..Len(rec.results) : rec.results[i] # Undefined}

\* C23: in every completion order each index of a chunk is claimed by one
\* worker, in turn and once: the claimed indices are those in flight and
\* those settled, no index is both, a worker claims only the next unclaimed
\* index, and when the pool is done every index has its outcome. Each outcome
\* is stored at the index of its own item and names that item's file.
C23_OutcomeAtOwnIndex ==
  [][\A r \in Runs :
       run'[r].pc \in {"mapping", "write", "retryYield", "yield"} =>
         LET rec == run'[r]
             chunk == rec.chunks[rec.ci]
             settled == SettledIndices(rec)
         IN /\ rec.inflight \cap settled = {}
            /\ rec.inflight \cup settled = 1..(rec.nextIndex - 1)
            /\ rec.pc # "mapping" => settled = 1..Len(chunk)
            /\ \A i \in settled :
                 LET item == rec.results[i][1]
                     candidate == rec.candidates[chunk[i]]
                 IN /\ item.idx = chunk[i]
                    /\ item.kind = "track" =>
                         item.track.signature = Some(candidate.signature)
                    /\ item.kind = "failure" =>
                         item.failure.fileName = candidate.file.name
            /\ (run[r].pc = "mapping" /\ rec.pc = "mapping" /\ rec.ci = run[r].ci) =>
                 \A j \in rec.inflight \ run[r].inflight :
                   j = run[r].nextIndex /\ run[r].results[j] = Undefined]_vars

C23_Witness ==
  /\ run[1].pc = "mapping"
  /\ Len(run[1].results) = 2
  /\ run[1].results[1] = Undefined /\ 1 \in run[1].inflight
  /\ run[1].results[2] # Undefined
  /\ run[1].results[2][1].idx = run[1].chunks[run[1].ci][2]


\* C24: every record the mapper produces, and every record of the Track
\* Store, has one reference to its content: the inline blob, with source
\* "blob" and no handleId, when autoImport is asked for, the candidate has no
\* handle or handleRepo.save failed; the handleId, with source "handle" and no
\* blob, otherwise.
C24_OneContentReference ==
  [][/\ \A t \in store' : t.blob # t.handleId
     /\ \A r \in Runs, metaThrows \in BOOLEAN, saveOk \in BOOLEAN :
          \A i \in run[r].inflight :
            MapperSettles(r, i, metaThrows, saveOk, FALSE) =>
              LET track == run'[r].results[i][1].track
                  candidate == run[r].candidates[run[r].chunks[run[r].ci][i]]
              IN IF run[r].autoImport \/ ~candidate.handle \/ ~saveOk
                 THEN track.source = "blob" /\ track.blob /\ ~track.handleId
                 ELSE track.source = "handle" /\ track.handleId /\ ~track.blob]_vars

C24_Witness ==
  /\ \E t \in store : t.id[1] = 1 /\ t.source = "handle" /\ t.handleId /\ ~t.blob
  /\ \E t \in store : t.id[1] = 1 /\ t.source = "blob" /\ t.blob /\ ~t.handleId


\* C25: seek(value) sets the position to value clamped into [0, duration], to
\* 0 while the duration is unknown, and leaves currentTrackId, isPlaying and
\* lastKnownShouldBePlaying as they were.
C25_SeekOnlyMovesPosition ==
  [][\A value \in SeekValues, ready \in BOOLEAN :
       Seek(value, ready) =>
         /\ player'.currentTime = IF player.duration = 0 \/ value < 0 THEN 0
                                  ELSE IF value > player.duration THEN player.duration
                                  ELSE value
         /\ player'.currentTrackId = player.currentTrackId
         /\ player'.isPlaying = player.isPlaying
         /\ player'.lastKnownShouldBePlaying = player.lastKnownShouldBePlaying]_vars


\* The rows a saveMany call is to store.
RowsOf(call) == {call.statements[i].row : i \in 1..Len(call.statements)}

\* C26: when a saveMany call returns, all of its tracks are in the tracks
\* table, and when it throws, all of them or none, whatever another
\* runInTransaction user does between its statements.
C26_SaveManyAtomic ==
  [][\A c \in Callers :
       (/\ database.calls[c].op = "saveMany"
        /\ database.calls[c].pc \notin {"returned", "threw"}
        /\ database'.calls[c].pc \in {"returned", "threw"}) =>
         LET mine == RowsOf(database.calls[c])
         IN /\ mine \subseteq database'.rows \/ mine \cap database'.rows = {}
            /\ database'.calls[c].pc = "returned" => mine \subseteq database'.rows]_vars


\* The positions of a chunk list at which candidate c stands.
PlacesOf(chunks, c) ==
  {<<k, i>> \in (1..Len(chunks)) \X (1..MaxCandidates) :
     i <= Len(chunks[k]) /\ chunks[k][i] = c}

Consistent(progress) ==
  /\ progress.succeeded + progress.failed <= progress.processed
  /\ progress.processed <= progress.total

\* C28: from the start of an import on, the published importProgress has
\* succeeded + failed <= processed <= total, none of processed, succeeded and
\* failed decreases, and an import that ends "done" without being canceled
\* publishes processed = total.
C28_ProgressConsistent ==
  [][/\ Consistent(importProgress')
     /\ run[1].pc # "idle" =>
          /\ importProgress'.processed >= importProgress.processed
          /\ importProgress'.succeeded >= importProgress.succeeded
          /\ importProgress'.failed >= importProgress.failed
          /\ importProgress'.total = importProgress.total
     /\ (run'[1].pc = "done" /\ ~run'[1].result[1].canceled) =>
          /\ importStatus' = "done"
          /\ importProgress'.processed = importProgress'.total]_vars

C28_Witness ==
  /\ Completed(1) /\ importStatus = "done"
  /\ run[1].skipped = 1
  /\ importProgress = [total |-> 3, processed |-> 3, succeeded |-> 1, failed |-> 1]


\* The ids of the records of a list.
IdsOf(list) == {list[i].id : i \in 1..Len(list)}

\* C29: once an import call and a loadLibrary call have both ended, in
\* whatever order their steps were taken, the Library State's list has every
\* record the import wrote to the Track Store, and no record of the import
\* that was not written.
C29_LibraryHasWhatWasWritten ==
  (run[1].pc \in {"done", "error"} /\ libraryLoad.pc \in {"done", "threw"}) =>
    /\ run[1].wrote \subseteq IdsOf(tracks)
    /\ {id \in IdsOf(tracks) : id[1] = 1} \subseteq run[1].wrote

C29_Witness ==
  /\ run[1].pc = "done" /\ libraryLoad.pc = "done"
  /\ libraryLoad.repaired # {}
  /\ IdsOf(libraryLoad.sorted) \cap run[1].wrote # {}
  /\ run[1].wrote \ IdsOf(libraryLoad.sorted) # {}


\* C30: once two load() calls on the Sound have both settled, the source the
\* Sound holds is the uri of the track the store's currentTrackId names.
C30_CurrentTrackIsLoaded ==
  ((\A c \in LoadCalls : engine.loads[c].pc = "done") /\ engine.sound.loaded) =>
    engine.sound.uri = NativeTrack(engine.currentTrackId[1]).uri

====
